---- MODULE Spec2Model ----
(***************************************************************************)
(* Project Introspection Engine: ProjectStructure (Structure/structure.py) *)
(* and Explorer (sys/explorer.py), modelled over a small filesystem.       *)
(*                                                                         *)
(* Strings are sequences of code points (97 = "a", 46 = ".", ...), so that *)
(* str.lower(), str.endswith(), "in" and string comparison are computed    *)
(* the way Python computes them.                                           *)
(***************************************************************************)
EXTENDS Integers, Sequences, FiniteSets, TLC

VARIABLES
    fs,                  \* the filesystem under base_path: path -> entry
    listing_order,       \* the order in which the filesystem lists names
    include_file_types,  \* ProjectStructure.include_file_types
    exclude_file_types,  \* ProjectStructure.exclude_file_types
    structure,           \* ProjectStructure.structure (nested ordered dict)
    pc,                  \* where read_project_structure is: "new", "building", "done"
    stack,               \* call stack of _build_structure frames
    total_size,          \* last value returned by _calculate_total_size
    valid_call,          \* last call of _is_valid_file and its result
    current_directory,   \* Explorer.current_directory
    result,              \* outcome of the last Explorer operation
    previous,            \* outcome of the same call made just before it, if any
    process_cwd,         \* the working directory of the process (os.chdir)
    show_file_content,   \* ProjectStructure.show_file_content
    output               \* the lines draw_project_structure has printed

vars == <<fs, listing_order, include_file_types, exclude_file_types, structure, pc, stack,
          total_size, valid_call, current_directory, result, previous,
          process_cwd, show_file_content, output>>

\* the state of the Explorer, and the state of the ProjectStructure
explorerVars == <<current_directory, result, previous, process_cwd>>
drawVars == <<show_file_content, output>>
structureVars == <<include_file_types, exclude_file_types, structure, pc, stack,
                   total_size, valid_call, drawVars>>

-----------------------------------------------------------------------------
(* Strings                                                                 *)

S_a_py       == <<97, 46, 112, 121>>                           \* "a.py"
S_A_PY       == <<65, 46, 80, 89>>                             \* "A.PY"
S_b_LOG      == <<98, 46, 76, 79, 71>>                         \* "b.LOG"
S_c_txt      == <<99, 46, 116, 120, 116>>                      \* "c.txt"
S_d_log      == <<100, 46, 108, 111, 103>>                     \* "d.log"
S_sub        == <<115, 117, 98>>                               \* "sub"
S_report_LOG == <<114, 101, 112, 111, 114, 116, 46, 76, 79, 71>>     \* "report.LOG"
S_report_txt == <<114, 101, 112, 111, 114, 116, 46, 116, 120, 116>>  \* "report.txt"
S_dot_py     == <<46, 112, 121>>                               \* ".py"
S_dot_PY     == <<46, 80, 89>>                                 \* ".PY"
S_dot_log    == <<46, 108, 111, 103>>                          \* ".log"
S_dot_LOG    == <<46, 76, 79, 71>>                             \* ".LOG"

\* str.lower() on one character (ASCII)
LowerChar(c) == IF c >= 65 /\ c <= 90 THEN c + 32 ELSE c

\* str.lower()
Lower(s) == [i \in 1..Len(s) |-> LowerChar(s[i])]

\* s.endswith(suffix)
EndsWith(s, suffix) ==
    /\ Len(suffix) <= Len(s)
    /\ SubSeq(s, Len(s) - Len(suffix) + 1, Len(s)) = suffix

\* s.startswith(prefix)
StartsWith(s, prefix) ==
    /\ Len(prefix) <= Len(s)
    /\ SubSeq(s, 1, Len(prefix)) = prefix

-----------------------------------------------------------------------------
(* ProjectStructure: the extension filter                                  *)

\* A filter argument is None or a list of extensions.
None == [isNone |-> TRUE, items |-> <<>>]
List(items) == [isNone |-> FALSE, items |-> items]

\* Python truthiness of "None or a list": None and [] are falsy.
Truthy(l) == ~l.isNone /\ Len(l.items) > 0

\* the name as the two any(...) generators of _is_valid_file see it
IsValidFile_nolower(file_name) == file_name
MatchedName(file_name) == Lower(file_name)

\* ProjectStructure._is_valid_file
IsValidFile(file_name, include, exclude) ==
    IF Truthy(include)
       /\ ~(\E i \in 1..Len(include.items) :
               EndsWith(MatchedName(file_name), include.items[i]))
    THEN FALSE
    ELSE IF Truthy(exclude)
            /\ (\E i \in 1..Len(exclude.items) :
                   EndsWith(MatchedName(file_name), exclude.items[i]))
    THEN FALSE
    ELSE TRUE

\* the filter arguments the constructor is given
FilterLists ==
    { None, List(<<>>), List(<<S_dot_py>>), List(<<S_dot_log>>),
      List(<<S_dot_py, S_dot_log>>), List(<<S_dot_PY>>), List(<<S_dot_LOG>>) }

\* the names _is_valid_file is asked about
ValidNames ==
    { S_a_py, S_A_PY, S_b_LOG, S_d_log, S_sub, S_report_LOG, S_report_txt }

NoCall == [called |-> FALSE]

\* no Explorer operation has been called
NoResult == [op |-> "none"]

-----------------------------------------------------------------------------
(* SpecValid: _is_valid_file as a function of the name and the two lists   *)

\* ProjectStructure.__init__ with every pair of filter lists
InitValid ==
    /\ include_file_types \in FilterLists
    /\ exclude_file_types \in FilterLists
    /\ fs = <<>>
    /\ listing_order = <<>>
    /\ structure = <<>>
    /\ pc = "new"
    /\ stack = <<>>
    /\ total_size = NoCall
    /\ valid_call = NoCall
    /\ current_directory = <<>>
    /\ result = NoResult
    /\ previous = NoResult
    /\ process_cwd = <<>>
    /\ show_file_content = FALSE
    /\ output = <<>>

\* a call self._is_valid_file(file_name)
IsValidFileCall ==
    \E file_name \in ValidNames :
        /\ valid_call' = [called |-> TRUE, name |-> file_name,
                          result |-> IsValidFile(file_name, include_file_types,
                                                 exclude_file_types)]
        /\ UNCHANGED <<fs, listing_order, include_file_types, exclude_file_types,
                       structure, pc, stack, total_size, explorerVars, drawVars>>

NextValid == IsValidFileCall

SpecValid == InitValid /\ [][NextValid]_vars

\* The reference predicate of the specification, over suffix sets.
Suffixes(s) == { SubSeq(s, i, Len(s)) : i \in 1..(Len(s) + 1) }
Items(l) == IF l.isNone THEN {} ELSE { l.items[i] : i \in 1..Len(l.items) }
RefAccept(name, include, exclude) ==
    LET low == [i \in 1..Len(name) |->
                    IF name[i] \in 65..90 THEN name[i] + 32 ELSE name[i]]
    IN  CASE Items(include) # {} /\ Items(include) \cap Suffixes(low) = {} -> FALSE
          [] OTHER ->
             CASE Items(exclude) # {} /\ Items(exclude) \cap Suffixes(low) # {} -> FALSE
               [] OTHER -> TRUE

\* C4: _is_valid_file(name) equals the reference predicate (inclusion test
\* on the lower-cased name first, then exclusion, else accept); exclusion
\* overrides inclusion; a None or empty include list lets every name pass
\* inclusion; "report.LOG" with exclude {".log"} and "report.txt" with
\* include {".py"} are both rejected.
C4_IsValidFileIsReference ==
    valid_call.called =>
        /\ valid_call.result =
               RefAccept(valid_call.name, include_file_types, exclude_file_types)
        /\ (valid_call.name = S_report_LOG /\ exclude_file_types = List(<<S_dot_log>>))
               => valid_call.result = FALSE
        /\ (valid_call.name = S_report_txt /\ include_file_types = List(<<S_dot_py>>))
               => valid_call.result = FALSE
        /\ (\E i \in 1..Len(exclude_file_types.items) :
               EndsWith(Lower(valid_call.name), exclude_file_types.items[i]))
               => valid_call.result = FALSE
        /\ (~Truthy(include_file_types) /\ ~Truthy(exclude_file_types))
               => valid_call.result = TRUE

\* C4 witness: the first example of the claim has been evaluated:
\* "report.LOG" with no include list and exclude {".log"} is rejected.
C4_Witness ==
    /\ valid_call.called
    /\ valid_call.name = S_report_LOG
    /\ include_file_types = None
    /\ exclude_file_types = List(<<S_dot_log>>)
    /\ valid_call.result = FALSE

-----------------------------------------------------------------------------
(* The filesystem under base_path                                          *)
(*                                                                         *)
(* fs maps the real path of every existing entry (a sequence of names,     *)
(* relative to base_path) to the entry.  A "link" is a symbolic link whose *)
(* target is base_path itself, an ancestor of every entry.                 *)

MaxEntries  == 3    \* entries the filesystem holds at most
SymloopMax  == 2    \* symbolic links one path resolution follows (ELOOP beyond)

\* entry names of the scanned tree
TreeNames == { S_a_py, S_b_LOG, S_c_txt }

\* the files of the scanned tree: "x" and "xy", both readable
TreeFiles ==
    { [content |-> <<120>>, readable |-> TRUE],
      [content |-> <<120, 121>>, readable |-> TRUE] }

\* what a directory occupies on disk: its st_size is the length of this
DirBlock == <<0, 0, 0, 0>>

Front(p) == SubSeq(p, 1, Len(p) - 1)
Last(p) == p[Len(p)]

\* the name every directory gives its parent
DotDot == <<46, 46>>

\* path resolution: follows every symbolic link on the way and ".." to the
\* parent, fails on a missing component and after more than SymloopMax links
RECURSIVE Resolve(_, _)
Resolve(f, path) ==
    IF path = <<>> THEN [ok |-> TRUE, real |-> <<>>, links |-> 0]
    ELSE LET r == Resolve(f, Front(path))
             q == Append(r.real, Last(path))
         IN  IF r.ok /\ Last(path) = DotDot
                 THEN IF r.real = <<>> THEN r
                      ELSE IF f[r.real].kind = "dir"
                          THEN [ok |-> TRUE, real |-> Front(r.real), links |-> r.links]
                      ELSE [ok |-> FALSE, real |-> <<>>, links |-> r.links]
             ELSE IF ~r.ok \/ q \notin DOMAIN f
                 THEN [ok |-> FALSE, real |-> <<>>, links |-> r.links]
             ELSE IF f[q].kind = "link"
                 THEN IF r.links + 1 > SymloopMax
                         THEN [ok |-> FALSE, real |-> <<>>, links |-> r.links + 1]
                         ELSE [ok |-> TRUE, real |-> <<>>, links |-> r.links + 1]
             ELSE [ok |-> TRUE, real |-> q, links |-> r.links]

\* what stat() finds at the resolved path
KindOf(f, real) == IF real = <<>> THEN "dir" ELSE f[real].kind

\* os.path.exists
PathExists(f, path) == Resolve(f, path).ok

\* os.path.isdir
IsDir(f, path) ==
    LET r == Resolve(f, path) IN r.ok /\ KindOf(f, r.real) = "dir"

\* os.path.isfile
IsFile(f, path) ==
    LET r == Resolve(f, path) IN r.ok /\ KindOf(f, r.real) = "file"

\* os.path.getsize: st_size of what the path resolves to
GetSize(f, path) ==
    LET r == Resolve(f, path)
    IN  IF r.real = <<>> THEN Len(DirBlock) ELSE Len(f[r.real].content)

\* os.path.getmtime
GetMTime(f, path) ==
    LET r == Resolve(f, path)
    IN  IF r.real = <<>> THEN 0 ELSE f[r.real].mtime

\* os.listdir: the names in a directory, in the filesystem's listing order
ListDir(f, order, path) ==
    LET real == Resolve(f, path).real
    IN  SelectSeq(order, LAMBDA n : Append(real, n) \in DOMAIN f)

\* the real directories
RealDirs(f) == { <<>> } \cup { q \in DOMAIN f : f[q].kind = "dir" }

\* all orders in which a filesystem can list a set of names
Orders(names) ==
    { o \in [1..Cardinality(names) -> names] :
          \A i, j \in 1..Cardinality(names) : o[i] = o[j] => i = j }

\* a new entry; its times are the filesystem's clock, which ticks with
\* every entry created
NewEntry(kind, content, readable) ==
    [kind |-> kind, content |-> content, readable |-> readable,
     mtime |-> Cardinality(DOMAIN fs) + 1, ctime |-> Cardinality(DOMAIN fs) + 1]

\* another process creates a regular file
EnvCreateFile(dirs, names, files) ==
    \E dir \in dirs, n \in names, file \in files :
        /\ Cardinality(DOMAIN fs) < MaxEntries
        /\ Append(dir, n) \notin DOMAIN fs
        /\ fs' = (Append(dir, n) :> NewEntry("file", file.content, file.readable)) @@ fs

\* another process creates a directory
EnvMakeDir(dirs, names) ==
    \E dir \in dirs, n \in names :
        /\ Cardinality(DOMAIN fs) < MaxEntries
        /\ Append(dir, n) \notin DOMAIN fs
        /\ fs' = (Append(dir, n) :> NewEntry("dir", DirBlock, TRUE)) @@ fs

\* another process creates a symbolic link to base_path
EnvSymlink(dirs, names) ==
    \E dir \in dirs, n \in names :
        /\ Cardinality(DOMAIN fs) < MaxEntries
        /\ Append(dir, n) \notin DOMAIN fs
        /\ fs' = (Append(dir, n) :> NewEntry("link", <<>>, TRUE)) @@ fs

-----------------------------------------------------------------------------
(* ProjectStructure: the tree, an insertion-ordered dict of nodes          *)

\* Python's None
PyNone == [none |-> TRUE]

\* dict operations; a dict is the sequence of its items in insertion order
DictKeys(d) == { d[i].key : i \in 1..Len(d) }
DictIndex(d, k) == CHOOSE i \in 1..Len(d) : d[i].key = k
DictGet(d, k) == d[DictIndex(d, k)].val
DictSet(d, k, v) ==
    IF k \in DictKeys(d)
    THEN [d EXCEPT ![DictIndex(d, k)].val = v]
    ELSE Append(d, [key |-> k, val |-> v])

\* the dict reached from node by following ["content"] along path
RECURSIVE ContentAt(_, _)
ContentAt(node, path) ==
    IF path = <<>> THEN node
    ELSE ContentAt(DictGet(node, Head(path)).content, Tail(path))

\* node[entry] = value, on the dict reached along path
RECURSIVE SetAt(_, _, _, _)
SetAt(node, path, entry, value) ==
    IF path = <<>> THEN DictSet(node, entry, value)
    ELSE LET sub == DictGet(node, Head(path))
         IN  DictSet(node, Head(path),
                     [sub EXCEPT !.content = SetAt(@, Tail(path), entry, value)])

\* hurry.filesize.size: the amount in the largest unit not above it
FormatSize(bytes) ==
    IF bytes >= 1024 * 1024 * 1024
        THEN [amount |-> bytes \div (1024 * 1024 * 1024), suffix |-> "G"]
    ELSE IF bytes >= 1024 * 1024
        THEN [amount |-> bytes \div (1024 * 1024), suffix |-> "M"]
    ELSE IF bytes >= 1024
        THEN [amount |-> bytes \div 1024, suffix |-> "K"]
    ELSE [amount |-> bytes, suffix |-> "B"]

\* datetime.fromtimestamp(t).strftime("%Y-%m-%d %H:%M:%S")
FormatTime(t) == [format |-> "%Y-%m-%d %H:%M:%S", timestamp |-> t]

\* the node of a directory
FolderNode_sized ==
    [type |-> "folder", size |-> FormatSize(Len(DirBlock)), modified |-> PyNone,
     content |-> <<>>]
FolderNode ==
    [type |-> "folder", size |-> PyNone, modified |-> PyNone, content |-> <<>>]

\* the node of a file
FileNode(size_in_bytes, modified_time) ==
    [type |-> "file", size |-> FormatSize(size_in_bytes),
     modified |-> FormatTime(modified_time)]

\* the test of the if branch of _build_structure
IsFolderEntry_filtered(entry_path, entry) ==
    /\ IsDir(fs, entry_path)
    /\ IsValidFile(entry, include_file_types, exclude_file_types)
IsFolderEntry(entry_path, entry) == IsDir(fs, entry_path)

\* the test of the elif branch of _build_structure
IsFileEntry_nofilter(entry_path, entry) == IsFile(fs, entry_path)
IsFileEntry(entry_path, entry) ==
    /\ IsFile(fs, entry_path)
    /\ IsValidFile(entry, include_file_types, exclude_file_types)

\* the frame of one call _build_structure(current_path, node): node is the
\* dict reached along current_path, todo what os.listdir returned and the
\* for loop has not visited yet
Frame(current_path) ==
    [current_path |-> current_path,
     todo |-> ListDir(fs, listing_order, current_path)]

Top == stack[Len(stack)]
EntryPath == Append(Top.current_path, Head(Top.todo))
Advance(st) == [st EXCEPT ![Len(st)].todo = Tail(@)]

\* read_project_structure: the call _build_structure(base_path, structure)
ReadProjectStructure ==
    /\ pc = "new"
    /\ pc' = "building"
    /\ stack' = << Frame(<<>>) >>
    /\ UNCHANGED <<fs, listing_order, include_file_types, exclude_file_types,
                   structure, total_size, valid_call, explorerVars, drawVars>>

\* _build_structure, the entry is a directory: a folder node, and the
\* recursive call on its content
BuildFolder ==
    /\ pc = "building" /\ Top.todo # <<>>
    /\ IsFolderEntry(EntryPath, Head(Top.todo))
    /\ structure' = SetAt(structure, Top.current_path, Head(Top.todo), FolderNode)
    /\ stack' = Append(Advance(stack), Frame(EntryPath))
    /\ UNCHANGED <<fs, listing_order, include_file_types, exclude_file_types,
                   pc, total_size, valid_call, explorerVars, drawVars>>

\* _build_structure, the entry is a file the filter accepts: a file node
BuildFile ==
    /\ pc = "building" /\ Top.todo # <<>>
    /\ ~IsFolderEntry(EntryPath, Head(Top.todo))
    /\ IsFileEntry(EntryPath, Head(Top.todo))
    /\ structure' = SetAt(structure, Top.current_path, Head(Top.todo),
                          FileNode(GetSize(fs, EntryPath), GetMTime(fs, EntryPath)))
    /\ stack' = Advance(stack)
    /\ UNCHANGED <<fs, listing_order, include_file_types, exclude_file_types,
                   pc, total_size, valid_call, explorerVars, drawVars>>

\* _build_structure, any other entry: no node
BuildSkip ==
    /\ pc = "building" /\ Top.todo # <<>>
    /\ ~IsFolderEntry(EntryPath, Head(Top.todo))
    /\ ~IsFileEntry(EntryPath, Head(Top.todo))
    /\ stack' = Advance(stack)
    /\ UNCHANGED <<fs, listing_order, include_file_types, exclude_file_types,
                   structure, pc, total_size, valid_call, explorerVars, drawVars>>

\* _build_structure returns when its for loop is over; the outermost return
\* ends read_project_structure
BuildReturn ==
    /\ pc = "building" /\ Top.todo = <<>>
    /\ stack' = Front(stack)
    /\ pc' = IF Len(stack) = 1 THEN "done" ELSE "building"
    /\ UNCHANGED <<fs, listing_order, include_file_types, exclude_file_types,
                   structure, total_size, valid_call, explorerVars, drawVars>>

\* the path whose size _calculate_folder_size reads for a file node
SizePath(name) == << name >>

\* _calculate_folder_size with "total_size =" in place of "total_size +="
RECURSIVE CalculateFolderSize_assign(_)
CalculateFolderSize_assign(node) ==
    IF node = <<>> THEN 0
    ELSE LET info == node[Len(node)].val
             name == node[Len(node)].key
         IN  IF info.type = "folder"
                 THEN CalculateFolderSize_assign(info.content)
             ELSE IF info.type = "file" /\ PathExists(fs, SizePath(name))
                 THEN GetSize(fs, SizePath(name))
             ELSE CalculateFolderSize_assign(Front(node))

\* _calculate_folder_size
RECURSIVE CalculateFolderSize(_)
CalculateFolderSize(node) ==
    IF node = <<>> THEN 0
    ELSE LET info == node[Len(node)].val
             name == node[Len(node)].key
             rest == CalculateFolderSize(Front(node))
         IN  IF info.type = "folder"
                 THEN rest + CalculateFolderSize(info.content)
             ELSE IF info.type = "file"
                 THEN IF PathExists(fs, SizePath(name))
                         THEN rest + GetSize(fs, SizePath(name))
                         ELSE rest
             ELSE rest

\* _calculate_total_size
CalculateTotalSize ==
    /\ pc = "done"
    /\ total_size' = [called |-> TRUE, value |-> CalculateFolderSize(structure)]
    /\ UNCHANGED <<fs, listing_order, include_file_types, exclude_file_types,
                   structure, pc, stack, valid_call, explorerVars, drawVars>>

-----------------------------------------------------------------------------
(* SpecTree: one scan of a tree that does not change during the scan       *)

\* the pairs of filter lists the scans are made with
TreeFilters ==
    { <<None, None>>, <<List(<<S_dot_py>>), None>>, <<None, List(<<S_dot_log>>)>>,
      <<List(<<S_dot_py, S_dot_log>>), List(<<S_dot_log>>)>> }

\* the order in which the filesystem lists the names (not sorted)
TreeOrders == { <<S_c_txt, S_a_py, S_b_LOG>> }

\* ProjectStructure.__init__ on an empty base_path
InitTree ==
    /\ \E p \in TreeFilters : include_file_types = p[1] /\ exclude_file_types = p[2]
    /\ fs = <<>>
    /\ listing_order \in TreeOrders
    /\ structure = <<>>
    /\ pc = "new"
    /\ stack = <<>>
    /\ total_size = NoCall
    /\ valid_call = NoCall
    /\ current_directory = <<>>
    /\ result = NoResult
    /\ previous = NoResult
    /\ process_cwd = <<>>
    /\ show_file_content = FALSE
    /\ output = <<>>

\* the tree is populated before the scan: files and directories
TreeEnv ==
    /\ pc = "new"
    /\ \/ EnvCreateFile(RealDirs(fs), TreeNames, TreeFiles)
       \/ EnvMakeDir(RealDirs(fs), TreeNames)
    /\ UNCHANGED <<listing_order, include_file_types, exclude_file_types,
                   structure, pc, stack, total_size, valid_call, explorerVars, drawVars>>

NextTree ==
    \/ TreeEnv
    \/ ReadProjectStructure
    \/ BuildFolder
    \/ BuildFile
    \/ BuildSkip
    \/ BuildReturn
    \/ CalculateTotalSize

SpecTree == InitTree /\ [][NextTree]_vars


\* the paths of all nodes of a tree, at every depth
RECURSIVE NodePaths(_)
NodePaths(node) ==
    UNION { { << node[i].key >> } \cup
            ( IF node[i].val.type = "folder"
              THEN { << node[i].key >> \o q : q \in NodePaths(node[i].val.content) }
              ELSE {} ) : i \in 1..Len(node) }

\* the node at a path of the tree
NodeAt(node, path) == DictGet(ContentAt(node, Front(path)), Last(path))

FileNodePaths == { q \in NodePaths(structure) : NodeAt(structure, q).type = "file" }
FolderNodePaths == { q \in NodePaths(structure) : NodeAt(structure, q).type = "folder" }

Accepted(name) == IsValidFile(name, include_file_types, exclude_file_types)

\* the bytes on disk of the regular files at a set of real paths
RECURSIVE BytesOnDisk(_)
BytesOnDisk(S) ==
    IF S = {} THEN 0
    ELSE LET q == CHOOSE y \in S : TRUE
         IN  Len(fs[q].content) + BytesOnDisk(S \ {q})

\* C1: after read_project_structure every file node, at any depth, has a
\* name _is_valid_file accepts, and a regular file whose name it rejects has
\* no node at all.
C1_FileNodesPassFilter ==
    pc = "done" =>
        /\ \A q \in FileNodePaths : Accepted(Last(q))
        /\ \A q \in DOMAIN fs :
               (fs[q].kind = "file" /\ ~Accepted(Last(q))) => q \notin NodePaths(structure)

\* C1 witness: a scan is over that met an accepted and a rejected file below
\* the top level.
C1_Witness ==
    /\ pc = "done"
    /\ \E q \in FileNodePaths : Len(q) = 2
    /\ \E q \in DOMAIN fs : Len(q) = 2 /\ fs[q].kind = "file" /\ ~Accepted(Last(q))

\* C2: with the filesystem unchanged since the scan, _calculate_total_size
\* returns the sum of the on-disk sizes of the files of all file nodes, at
\* every depth.
C2_TotalIsSumOverAllDepths ==
    (pc = "done" /\ total_size.called) =>
        total_size.value = BytesOnDisk(FileNodePaths)

\* C3: for a base_path that holds only files, _calculate_total_size is the
\* sum of the sizes of the files the filter accepts.
OnlyFiles == \A q \in DOMAIN fs : Len(q) = 1 /\ fs[q].kind = "file"
C3_FlatTotalIsSumOfAccepted ==
    (pc = "done" /\ total_size.called /\ OnlyFiles) =>
        total_size.value = BytesOnDisk({ q \in DOMAIN fs : Accepted(Last(q)) })

\* C3 witness: three files of which the filter rejects one, two of them of
\* different sizes, have been summed.
C3_Witness ==
    /\ pc = "done" /\ total_size.called /\ OnlyFiles
    /\ Cardinality(DOMAIN fs) = 3
    /\ Cardinality({ q \in DOMAIN fs : Accepted(Last(q)) }) = 2
    /\ total_size.value = 3

\* C6: every directory the walk finds gets a folder node whatever the
\* filters are, and its entries are scanned with the same filters: each of
\* its directories has a folder node, each of its accepted files a file node,
\* and nothing else has a node.
ScannedLike(dir) ==
    DictKeys(ContentAt(structure, dir)) =
        { n \in TreeNames :
              \/ IsDir(fs, Append(dir, n))
              \/ IsFile(fs, Append(dir, n)) /\ Accepted(n) }
C6_DirectoriesAlwaysIncluded ==
    pc = "done" =>
        /\ \A q \in DOMAIN fs : fs[q].kind = "dir" => q \in FolderNodePaths
        /\ \A q \in FolderNodePaths \cup { <<>> } : ScannedLike(q)

\* C6 witness: a directory whose name the filters reject as a file name has
\* a folder node with a file node in it.
C6_Witness ==
    /\ pc = "done"
    /\ \E q \in FolderNodePaths :
          /\ ~Accepted(Last(q))
          /\ \E r \in FileNodePaths : Front(r) = q

-----------------------------------------------------------------------------
(* SpecCycle: one scan of a tree that holds symbolic links to base_path    *)

InitCycle ==
    /\ include_file_types = None /\ exclude_file_types \in { None, List(<<S_dot_log>>) }
    /\ fs = <<>>
    /\ listing_order \in TreeOrders
    /\ structure = <<>>
    /\ pc = "new"
    /\ stack = <<>>
    /\ total_size = NoCall
    /\ valid_call = NoCall
    /\ current_directory = <<>>
    /\ result = NoResult
    /\ previous = NoResult
    /\ process_cwd = <<>>
    /\ show_file_content = FALSE
    /\ output = <<>>

\* the tree is populated before the scan: files, directories and links
CycleEnv ==
    /\ pc = "new"
    /\ \/ EnvCreateFile(RealDirs(fs), TreeNames, TreeFiles)
       \/ EnvMakeDir(RealDirs(fs), TreeNames)
       \/ EnvSymlink(RealDirs(fs), TreeNames)
    /\ UNCHANGED <<listing_order, include_file_types, exclude_file_types,
                   structure, pc, stack, total_size, valid_call, explorerVars, drawVars>>

NextCycle ==
    \/ CycleEnv
    \/ ReadProjectStructure
    \/ BuildFolder
    \/ BuildFile
    \/ BuildSkip
    \/ BuildReturn

SpecCycle == InitCycle /\ [][NextCycle]_vars

\* a symbolic link under base_path points back to base_path
HasSymlinkCycle == \E q \in DOMAIN fs : fs[q].kind = "link"

\* C5: with a symbolic link back to an ancestor, read_project_structure
\* stops with a CycleDetected failure: it neither scans a directory that it
\* is already scanning nor ends as a completed scan.
C5_CycleDetected ==
    HasSymlinkCycle =>
        /\ pc # "done"
        /\ \A i, j \in 1..Len(stack) :
               (i < j) => Resolve(fs, stack[i].current_path).real
                            # Resolve(fs, stack[j].current_path).real

-----------------------------------------------------------------------------
(* Explorer                                                                *)

S_hello       == <<104, 101, 108, 108, 111>>                   \* "hello"
S_WORLD       == <<87, 79, 82, 76, 68>>                        \* "WORLD"
S_hi          == <<104, 105>>                                  \* "hi"
S_Hello_World == <<72, 101, 108, 108, 111, 32, 87, 111, 114, 108, 100>>  \* "Hello World"
S_ASCII       == <<65, 83, 67, 73, 73>>                        \* "ASCII"
S_ASCII_text  == <<65, 83, 67, 73, 73, 32, 116, 101, 120, 116>>  \* "ASCII text"
S_data        == <<100, 97, 116, 97>>                          \* "data"
S_empty       == <<101, 109, 112, 116, 121>>                   \* "empty"
B_binary      == <<255, 254>>                                  \* bytes that are no text

\* the entry names of current_directory
ExplorerNames == { S_a_py, S_b_LOG, S_c_txt }

\* the files other processes put into current_directory: two texts, one
\* file of undecodable bytes, one file this process may not open
ExplorerFiles ==
    { [content |-> S_Hello_World, readable |-> TRUE],
      [content |-> S_hi, readable |-> TRUE],
      [content |-> B_binary, readable |-> TRUE],
      [content |-> S_hi, readable |-> FALSE] }

\* the arguments of the calls
SortKeys == { "name", "size", "modified", "type", "colour" }
TypeFilters == { None, List(S_ASCII) }
Keywords == { S_hello, S_WORLD, S_a_py }

\* decoding bytes as text: a byte above 127 that starts no valid sequence
\* is a UnicodeDecodeError
Decodable(bytes) == \A i \in 1..Len(bytes) : bytes[i] < 128

\* needle in haystack
Contains(haystack, needle) ==
    \E i \in 0..(Len(haystack) - Len(needle)) :
        SubSeq(haystack, i + 1, i + Len(needle)) = needle

\* a < b for str
StrLess(a, b) ==
    \/ \E i \in 1..Len(a) :
          /\ i <= Len(b)
          /\ SubSeq(a, 1, i - 1) = SubSeq(b, 1, i - 1)
          /\ a[i] < b[i]
    \/ Len(a) < Len(b) /\ a = SubSeq(b, 1, Len(a))

\* Path.iterdir(): the direct children of current_directory
IterDir == ListDir(fs, listing_order, current_directory)

\* current_directory / name
ChildPath(name) == Append(current_directory, name)

\* Path.is_file()
PathIsFile_exists(file_path) == PathExists(fs, file_path)
PathIsFile(file_path) == IsFile(fs, file_path)

\* magic.Magic().from_file raises for a file it cannot open
SniffRaises(file_path) == ~fs[Resolve(fs, file_path).real].readable

\* Explorer.get_file_type: the label libmagic gives the file's bytes
GetFileType(file_path) ==
    LET bytes == fs[Resolve(fs, file_path).real].content
    IN  IF bytes = <<>> THEN S_empty
        ELSE IF Decodable(bytes) THEN S_ASCII_text
        ELSE S_data

\* Explorer.get_file_info
GetFileInfo(file_path) ==
    LET e == fs[Resolve(fs, file_path).real]
    IN  [name |-> Last(file_path),
         path |-> file_path,
         size |-> Len(e.content),
         type |-> GetFileType(file_path),
         created |-> e.ctime,
         modified |-> e.mtime]

\* key(a) <= key(b) for the key lambda x: x.get(sort_by, 0)
KeyLessEq(sort_by, a, b) ==
    IF sort_by \in { "name", "path", "type" }
        THEN ~StrLess(b[sort_by], a[sort_by])
    ELSE IF sort_by \in { "size", "created", "modified" }
        THEN a[sort_by] <= b[sort_by]
    ELSE TRUE

\* list.sort(key=...): stable, ascending
RECURSIVE SortFiles(_, _)
SortFiles_unsorted(file_list, sort_by) == file_list
SortFiles(file_list, sort_by) ==
    IF file_list = <<>> THEN <<>>
    ELSE LET sorted == SortFiles(Front(file_list), sort_by)
             x == Last(file_list)
             k == Cardinality({ i \in 1..Len(sorted) : KeyLessEq(sort_by, sorted[i], x) })
         IN  SubSeq(sorted, 1, k) \o << x >> \o SubSeq(sorted, k + 1, Len(sorted))

\* does the entry pass the file_type test of get_all_files
PassesTypeFilter(file_path, file_type) ==
    file_type.isNone \/ StartsWith(GetFileType(file_path), file_type.items)

\* file_list = [] at the start of get_all_files
NewFileList_kept ==
    IF result.op = "get_all_files" /\ result.status = "returned"
    THEN result.value ELSE <<>>
NewFileList == <<>>

\* the for loop of get_all_files over the entries not visited yet
RECURSIVE CollectFiles(_, _, _)
CollectFiles(entries, file_type, file_list) ==
    IF entries = <<>> THEN file_list
    ELSE LET file_path == ChildPath(Head(entries))
         IN  IF PathIsFile(file_path) /\ PassesTypeFilter(file_path, file_type)
             THEN CollectFiles(Tail(entries), file_type,
                               Append(file_list, GetFileInfo(file_path)))
             ELSE CollectFiles(Tail(entries), file_type, file_list)

\* an exception of get_file_type leaves the loops of get_all_files and
\* get_file_type_statistics: nothing catches it
TypeSniffingRaises ==
    \E i \in 1..Len(IterDir) :
        PathIsFile(ChildPath(IterDir[i])) /\ SniffRaises(ChildPath(IterDir[i]))

\* the outcome of a call: a returned value, or an exception that reached
\* the caller
Returned(op, args, value) ==
    [op |-> op, args |-> args, status |-> "returned", value |-> value]
Raised(op, args) ==
    [op |-> op, args |-> args, status |-> "raised", value |-> <<>>]

\* previous holds the outcome of the call just before, when it was the same
\* call with the same arguments
SameCallBefore(op, args) ==
    IF result.op = op /\ result.args = args THEN result ELSE NoResult

\* the list get_all_files(sort_by, file_type) returns when nothing raises
FileList(sort_by, file_type) ==
    SortFiles(CollectFiles(IterDir, file_type, NewFileList), sort_by)

\* Explorer.get_all_files
GetAllFiles ==
    \E sort_by \in SortKeys, file_type \in TypeFilters :
        LET args == [sort_by |-> sort_by, file_type |-> file_type]
        IN  /\ result' =
                 IF TypeSniffingRaises
                 THEN Raised("get_all_files", args)
                 ELSE Returned("get_all_files", args, FileList(sort_by, file_type))
            /\ previous' = SameCallBefore("get_all_files", args)
            /\ UNCHANGED <<fs, listing_order, current_directory, process_cwd, structureVars>>

\* the text search_files compares the keyword with
SearchText_cased(text) == text
SearchText(text) == Lower(text)

\* the for loop of search_files over the entries not visited yet
RECURSIVE CollectMatches(_, _, _)
CollectMatches(entries, keyword, matching_files) ==
    IF entries = <<>> THEN matching_files
    ELSE LET file_path == ChildPath(Head(entries))
             e == fs[Resolve(fs, file_path).real]
         IN  IF ~PathIsFile(file_path)
                 THEN CollectMatches(Tail(entries), keyword, matching_files)
             ELSE IF ~e.readable \/ ~Decodable(e.content)
                 \* read_text raised: except Exception prints and goes on
                 THEN CollectMatches(Tail(entries), keyword, matching_files)
             ELSE IF Contains(SearchText(e.content), Lower(keyword))
                 THEN CollectMatches(Tail(entries), keyword,
                                     Append(matching_files, GetFileInfo(file_path)))
             ELSE CollectMatches(Tail(entries), keyword, matching_files)

\* Explorer.search_files
SearchFiles ==
    \E keyword \in Keywords :
        /\ result' = Returned("search_files", [keyword |-> keyword],
                              CollectMatches(IterDir, keyword, <<>>))
        /\ previous' = NoResult
        /\ UNCHANGED <<fs, listing_order, current_directory, process_cwd, structureVars>>

\* the for loop of get_file_type_statistics over the entries not visited yet
RECURSIVE CountTypes(_, _)
CountTypes(entries, file_type_statistics) ==
    IF entries = <<>> THEN file_type_statistics
    ELSE LET file_path == ChildPath(Head(entries))
             file_type == GetFileType(file_path)
             count == IF file_type \in DictKeys(file_type_statistics)
                      THEN DictGet(file_type_statistics, file_type) ELSE 0
         IN  IF PathIsFile(file_path)
             THEN CountTypes(Tail(entries),
                             DictSet(file_type_statistics, file_type, count + 1))
             ELSE CountTypes(Tail(entries), file_type_statistics)

\* Explorer.get_file_type_statistics
GetFileTypeStatistics ==
    /\ result' =
         IF TypeSniffingRaises
         THEN Raised("get_file_type_statistics", <<>>)
         ELSE Returned("get_file_type_statistics", <<>>, CountTypes(IterDir, <<>>))
    /\ previous' = NoResult
    /\ UNCHANGED <<fs, listing_order, current_directory, process_cwd, structureVars>>

-----------------------------------------------------------------------------
(* SpecExplorer: the inspection operations on a directory other processes  *)
(* have filled                                                             *)

\* Explorer.__init__; the directory lists its names in an order of its own
InitExplorer ==
    /\ current_directory = <<>>
    /\ result = NoResult
    /\ previous = NoResult
    /\ process_cwd = <<>>
    /\ show_file_content = FALSE
    /\ output = <<>>
    /\ fs = <<>>
    /\ listing_order = <<S_c_txt, S_a_py, S_b_LOG>>
    /\ include_file_types = None
    /\ exclude_file_types = None
    /\ structure = <<>>
    /\ pc = "new"
    /\ stack = <<>>
    /\ total_size = NoCall
    /\ valid_call = NoCall

\* current_directory is filled before the first operation
ExplorerEnv ==
    /\ result = NoResult
    /\ \/ EnvCreateFile({ current_directory }, ExplorerNames, ExplorerFiles)
       \/ EnvMakeDir({ current_directory }, ExplorerNames)
    /\ UNCHANGED <<listing_order, explorerVars, structureVars>>

NextExplorer ==
    \/ ExplorerEnv
    \/ GetAllFiles
    \/ SearchFiles
    \/ GetFileTypeStatistics

SpecExplorer == InitExplorer /\ [][NextExplorer]_vars

\* the regular files that are direct children of current_directory
DirectFiles ==
    { n \in ExplorerNames :
          ChildPath(n) \in DOMAIN fs /\ fs[ChildPath(n)].kind = "file" }

\* a <= b for str, character by character
RECURSIVE LexLessEq(_, _)
LexLessEq(a, b) ==
    IF a = <<>> THEN TRUE
    ELSE IF b = <<>> THEN FALSE
    ELSE IF Head(a) # Head(b) THEN Head(a) < Head(b)
    ELSE LexLessEq(Tail(a), Tail(b))

\* the type label of a direct file, from its bytes
LabelOf(n) ==
    LET bytes == fs[ChildPath(n)].content
    IN  IF bytes = <<>> THEN S_empty
        ELSE IF \E i \in 1..Len(bytes) : bytes[i] >= 128 THEN S_data
        ELSE S_ASCII_text

\* the direct files a call get_all_files(file_type=...) is to return
Qualifying(file_type) ==
    { n \in DirectFiles :
          file_type.isNone \/
          /\ Len(file_type.items) <= Len(LabelOf(n))
          /\ \A i \in 1..Len(file_type.items) : LabelOf(n)[i] = file_type.items[i] }

\* the records of a list are those of a set of direct files, each once
ExactlyOnce(list, names) ==
    /\ Len(list) = Cardinality(names)
    /\ { list[i].name : i \in 1..Len(list) } = names
    /\ \A i \in 1..Len(list) :
          /\ list[i].path = ChildPath(list[i].name)
          /\ list[i].size = Len(fs[ChildPath(list[i].name)].content)
          /\ list[i].modified = fs[ChildPath(list[i].name)].mtime
          /\ list[i].type = LabelOf(list[i].name)

\* C7: for each sort_by in name, size, modified, type, the list that
\* get_all_files returns is in non-decreasing order of that field and holds
\* each qualifying file exactly once.
C7_SortedAndComplete ==
    ( /\ result.op = "get_all_files" /\ result.status = "returned"
      /\ result.args.sort_by \in { "name", "size", "modified", "type" } ) =>
        LET v == result.value
            by == result.args.sort_by
        IN  /\ ExactlyOnce(v, Qualifying(result.args.file_type))
            /\ \A i \in 1..(Len(v) - 1) :
                  IF by \in { "name", "type" }
                  THEN LexLessEq(v[i][by], v[i + 1][by])
                  ELSE v[i][by] <= v[i + 1][by]

\* C7 witness: three files of two sizes come back sorted by size, in an
\* order that is not the directory's listing order.
C7_Witness ==
    /\ result.op = "get_all_files" /\ result.status = "returned"
    /\ result.args.sort_by = "size" /\ result.args.file_type = None
    /\ Len(result.value) = 3
    /\ result.value[1].size < result.value[3].size
    /\ [i \in 1..3 |-> result.value[i].name] # listing_order

\* C8: two consecutive calls of get_all_files with the same arguments and no
\* change of the filesystem in between have the same outcome, the same
\* records in the same order.
C8_Idempotent ==
    (result.op = "get_all_files" /\ previous.op = "get_all_files") =>
        result = previous

\* C8 witness: the second of two calls with an unknown sort key, so that all
\* records tie, has returned two or more records.
C8_Witness ==
    /\ result.op = "get_all_files" /\ previous.op = "get_all_files"
    /\ result.status = "returned"
    /\ result.args.sort_by = "colour"
    /\ Len(result.value) >= 2

\* the text holds the keyword, letter case ignored
HoldsIgnoringCase(text, keyword) ==
    \E off \in 0..(Len(text) - Len(keyword)) :
        \A j \in 1..Len(keyword) :
            LowerChar(text[off + j]) = LowerChar(keyword[j])

\* C9: search_files(keyword) returns exactly the records of the direct files
\* whose decoded text holds the keyword, letter case ignored; a file that
\* cannot be read or decoded is skipped and nothing is raised.
C9_SearchIsExact ==
    result.op = "search_files" =>
        /\ result.status = "returned"
        /\ ExactlyOnce(result.value,
               { n \in DirectFiles :
                     /\ fs[ChildPath(n)].readable
                     /\ \A i \in 1..Len(fs[ChildPath(n)].content) :
                           fs[ChildPath(n)].content[i] < 128
                     /\ HoldsIgnoringCase(fs[ChildPath(n)].content,
                                          result.args.keyword) })

\* C9 witness: "hello" was searched in a directory with a file "Hello World",
\* a file of undecodable bytes and a file that may not be opened; exactly
\* the text file came back.
C9_Witness ==
    /\ result.op = "search_files" /\ result.args.keyword = S_hello
    /\ \E n \in DirectFiles : fs[ChildPath(n)].content = B_binary
    /\ \E n \in DirectFiles : ~fs[ChildPath(n)].readable
    /\ Len(result.value) = 1
    /\ fs[ChildPath(result.value[1].name)].content = S_Hello_World

\* C10: get_all_files and get_file_type_statistics never raise: an entry
\* that fails is skipped and the operation returns a result for the rest.
C10_InspectionNeverRaises ==
    result.op \in { "get_all_files", "get_file_type_statistics" } =>
        result.status = "returned"

-----------------------------------------------------------------------------
(* Explorer: the operations that change the filesystem                     *)
(*                                                                         *)
(* In the specifications below fs is the whole filesystem, <<>> is its     *)
(* root "/", and it holds no symbolic links.  The system calls behave as   *)
(* on POSIX.                                                               *)

S_w        == <<119>>                                  \* "w"
S_d        == <<100>>                                  \* "d"
S_up_a_py  == <<46, 46, 47, 97, 46, 112, 121>>         \* "../a.py"
S_abs_d    == <<47, 100>>                              \* "/d"
Slash      == <<47>>                                   \* "/"

\* the parts of a path string between its separators
RECURSIVE Parts(_)
Parts(s) ==
    IF s = <<>> THEN <<>>
    ELSE IF Head(s) = Slash[1] THEN Parts(Tail(s))
    ELSE LET seps == { i \in 1..Len(s) : s[i] = Slash[1] }
             cut == IF seps = {} THEN Len(s) + 1
                    ELSE CHOOSE i \in seps : \A j \in seps : i <= j
         IN  <<SubSeq(s, 1, cut - 1)>> \o Parts(SubSeq(s, cut + 1, Len(s)))

\* PurePath.is_absolute
IsAbsolute(s) == StartsWith(s, Slash)

\* directory / name of pathlib: an absolute name replaces the directory,
\* ".." is kept as a part
PathJoin(directory, name) ==
    IF IsAbsolute(name) THEN Parts(name) ELSE directory \o Parts(name)

\* the path with its ".." parts taken out lexically
RECURSIVE Normalize(_)
Normalize(path) ==
    IF path = <<>> THEN <<>>
    ELSE IF Last(path) = DotDot
        THEN LET n == Normalize(Front(path)) IN IF n = <<>> THEN <<>> ELSE Front(n)
    ELSE Append(Normalize(Front(path)), Last(path))

\* is path the directory dir or something below it
IsPrefix(dir, path) ==
    Len(dir) <= Len(path) /\ SubSeq(path, 1, Len(dir)) = dir

\* may this process search and change the real directory: it and every
\* directory above it grant access
Access(f, dir) == \A i \in 1..Len(dir) : f[SubSeq(dir, 1, i)].readable

\* where the kernel finds the last name of a path: the real directory that
\* holds it, or the error of the lookup
Locate(f, path) ==
    LET r == Resolve(f, Front(path))
    IN  IF ~r.ok THEN [exc |-> "FileNotFoundError", real |-> <<>>]
        ELSE IF KindOf(f, r.real) # "dir"
            THEN [exc |-> "NotADirectoryError", real |-> <<>>]
        ELSE IF ~Access(f, r.real) THEN [exc |-> "PermissionError", real |-> <<>>]
        ELSE [exc |-> "none", real |-> Append(r.real, Last(path))]

\* the outcome of a system call: the exception it raised, if any, and the
\* filesystem it left
Done(f) == [exc |-> "none", fs |-> f]
Fails(exc, f) == [exc |-> exc, fs |-> f]

\* the filesystem without some entries
Without(f, paths) == [q \in DOMAIN f \ paths |-> f[q]]

\* the entries at and below a real path
Subtree(f, real) == { q \in DOMAIN f : IsPrefix(real, q) }

\* os.remove
OsRemove(f, path) ==
    LET loc == Locate(f, path)
    IN  IF loc.exc # "none" THEN Fails(loc.exc, f)
        ELSE IF loc.real \notin DOMAIN f THEN Fails("FileNotFoundError", f)
        ELSE IF f[loc.real].kind = "dir" THEN Fails("IsADirectoryError", f)
        ELSE Done(Without(f, { loc.real }))

\* os.rename: the source takes the place of the destination
OsRename(f, src, dst) ==
    LET from == Locate(f, src)
        to == Locate(f, dst)
        moved == { to.real \o SubSeq(q, Len(from.real) + 1, Len(q)) :
                       q \in Subtree(f, from.real) }
        kept == DOMAIN f \ (Subtree(f, from.real) \cup { to.real })
    IN  IF from.exc # "none" THEN Fails(from.exc, f)
        ELSE IF to.exc # "none" THEN Fails(to.exc, f)
        ELSE IF from.real \notin DOMAIN f THEN Fails("FileNotFoundError", f)
        ELSE IF from.real = to.real THEN Done(f)
        ELSE IF f[from.real].kind = "dir" /\ IsPrefix(from.real, to.real)
            THEN Fails("OSError", f)
        ELSE IF to.real \in DOMAIN f /\ f[from.real].kind = "file"
                /\ f[to.real].kind = "dir"
            THEN Fails("IsADirectoryError", f)
        ELSE IF to.real \in DOMAIN f /\ f[from.real].kind = "dir"
                /\ f[to.real].kind = "file"
            THEN Fails("NotADirectoryError", f)
        ELSE IF to.real \in DOMAIN f /\ Subtree(f, to.real) # { to.real }
            THEN Fails("OSError", f)
        ELSE Done([q \in kept \cup moved |->
                      IF q \in moved
                      THEN f[from.real \o SubSeq(q, Len(to.real) + 1, Len(q))]
                      ELSE f[q]])

\* the time a changed entry gets: the filesystem's clock
Touch(f, entry, content) ==
    [entry EXCEPT !.content = content, !.mtime = Cardinality(DOMAIN f) + 1]

\* open(path, 'w') followed by the writes and the close: the file is
\* created, or emptied when it exists, and then holds the text written
OpenForWriting(f, path, text) ==
    LET loc == Locate(f, path)
    IN  IF loc.exc # "none" THEN Fails(loc.exc, f)
        ELSE IF loc.real \notin DOMAIN f
            THEN Done((loc.real :> [kind |-> "file", content |-> text,
                                    readable |-> TRUE,
                                    mtime |-> Cardinality(DOMAIN f) + 1,
                                    ctime |-> Cardinality(DOMAIN f) + 1]) @@ f)
        ELSE IF f[loc.real].kind = "dir" THEN Fails("IsADirectoryError", f)
        ELSE IF ~f[loc.real].readable THEN Fails("PermissionError", f)
        ELSE Done([f EXCEPT ![loc.real] = Touch(f, f[loc.real], text)])

\* os.mkdir
OsMkdir(f, path) ==
    LET loc == Locate(f, path)
    IN  IF loc.exc # "none" THEN Fails(loc.exc, f)
        ELSE IF Last(path) = DotDot \/ loc.real \in DOMAIN f
            THEN Fails("FileExistsError", f)
        ELSE Done((loc.real :> [kind |-> "dir", content |-> DirBlock,
                                readable |-> TRUE,
                                mtime |-> Cardinality(DOMAIN f) + 1,
                                ctime |-> Cardinality(DOMAIN f) + 1]) @@ f)

\* os.makedirs(path, exist_ok=True): the missing directories above the
\* path first, then the path; an existing directory is no error
RECURSIVE OsMakedirs(_, _)
OsMakedirs(f, path) ==
    IF path = <<>> THEN Done(f)
    ELSE LET head == Front(path)
             above == IF head # <<>> /\ ~PathExists(f, head)
                      THEN OsMakedirs(f, head) ELSE Done(f)
             made == OsMkdir(above.fs, path)
         IN  IF above.exc \notin { "none", "FileExistsError" } THEN above
             ELSE IF made.exc = "FileExistsError" /\ IsDir(above.fs, path)
                 THEN Done(above.fs)
             ELSE made

\* shutil.rmtree: the entries of the directory in listing order, each
\* directory after what it holds; the first error ends it, what was removed
\* before stays removed
RECURSIVE RemoveTree(_, _, _), RemoveEntries(_, _, _, _)
RemoveTree(f, order, real) ==
    IF ~f[real].readable THEN Fails("PermissionError", f)
    ELSE LET inside == RemoveEntries(f, order, real, ListDir(f, order, real))
         IN  IF inside.exc # "none" THEN inside
             ELSE Done(Without(inside.fs, { real }))
RemoveEntries(f, order, real, names) ==
    IF names = <<>> THEN Done(f)
    ELSE LET child == Append(real, Head(names))
             first == IF f[child].kind = "dir" THEN RemoveTree(f, order, child)
                      ELSE Done(Without(f, { child }))
         IN  IF first.exc # "none" THEN first
             ELSE RemoveEntries(first.fs, order, real, Tail(names))

ShutilRmtree(f, order, path) ==
    LET loc == Locate(f, path)
    IN  IF loc.exc # "none" THEN Fails(loc.exc, f)
        ELSE IF loc.real \notin DOMAIN f THEN Fails("FileNotFoundError", f)
        ELSE IF f[loc.real].kind # "dir" THEN Fails("NotADirectoryError", f)
        ELSE RemoveTree(f, order, loc.real)

\* os.chdir, from the working directory cwd of the process: the directory
\* the process works in afterwards, or the error
OsChdir(f, cwd, name) ==
    LET r == Resolve(f, PathJoin(cwd, name))
    IN  IF ~r.ok THEN [exc |-> "FileNotFoundError", cwd |-> cwd]
        ELSE IF KindOf(f, r.real) # "dir"
            THEN [exc |-> "NotADirectoryError", cwd |-> cwd]
        ELSE IF ~Access(f, r.real) THEN [exc |-> "PermissionError", cwd |-> cwd]
        ELSE [exc |-> "none", cwd |-> r.real]

\* pathlib.Path(name).resolve(): made absolute from the working directory
\* of the process, ".." taken out; the path need not exist
PathResolve(cwd, name) == Normalize(PathJoin(cwd, name))

\* does an except clause for the class catch the exception: every error of
\* a system call is an Exception
Catches_exact(class, exc) == class = exc
Catches(class, exc) == class = exc \/ class = "Exception"

\* an except clause and the text its body formats
Clause(class, template) == [class |-> class, template |-> template]

\* the body of the first except clause that catches the exception
RECURSIVE Except(_, _)
Except(clauses, exc) ==
    IF clauses = <<>> THEN [caught |-> FALSE, template |-> ""]
    ELSE IF Catches(Head(clauses).class, exc)
        THEN [caught |-> TRUE, template |-> Head(clauses).template]
    ELSE Except(Tail(clauses), exc)

\* an f-string with the values it formats
Message(template, values) == [template |-> template, values |-> values]

\* the outcome of a call that ran a system call in a try statement: exc is
\* what the system call raised; the text of the statement reached is
\* returned, or printed and None returned
Outcome(op, args, exc, success, clauses, values, returns_text) ==
    LET handler == Except(clauses, exc)
        text == Message(IF exc = "none" THEN success ELSE handler.template, values)
    IN  IF exc # "none" /\ ~handler.caught
        THEN [op |-> op, args |-> args, status |-> "raised", value |-> exc,
              printed |-> <<>>, exc |-> exc]
        ELSE [op |-> op, args |-> args, status |-> "returned",
              value |-> IF returns_text THEN text ELSE PyNone,
              printed |-> IF returns_text THEN <<>> ELSE <<text>>,
              exc |-> exc]

\* the name and content arguments of the calls
NameArgs == { S_a_py, S_d, S_up_a_py, S_abs_d }
DirectoryArgs == { S_d, S_abs_d }
ContentArgs == { None, List(S_hello) }

\* Explorer.rename_file
RenameFile ==
    \E old_name \in NameArgs, new_name \in NameArgs :
        LET old_path == PathJoin(current_directory, old_name)
            new_path == PathJoin(current_directory, new_name)
            call == OsRename(fs, old_path, new_path)
        IN  /\ fs' = call.fs
            /\ result' = Outcome("rename_file", <<old_name, new_name>>, call.exc,
                   "File '{old_name}' renamed to '{new_name}'.",
                   << Clause("FileNotFoundError", "Error: File '{old_name}' not found."),
                      Clause("FileExistsError", "Error: File '{new_name}' already exists."),
                      Clause("Exception", "Error renaming file: {str(e)}") >>,
                   <<old_name, new_name>>, TRUE)
            /\ previous' = NoResult
            /\ UNCHANGED <<listing_order, current_directory, process_cwd, structureVars>>

\* Explorer.create_new_file
CreateNewFile ==
    \E new_file_name \in NameArgs, content \in ContentArgs :
        LET new_file_path == PathJoin(current_directory, new_file_name)
            call == OpenForWriting(fs, new_file_path,
                                   IF ~content.isNone THEN content.items ELSE <<>>)
        IN  /\ Cardinality(DOMAIN call.fs) <= MaxEntries
            /\ fs' = call.fs
            /\ result' = Outcome("create_new_file", <<new_file_name, content>>, call.exc,
                   "File '{new_file_name}' created.",
                   << Clause("FileExistsError", "Error: File '{new_file_name}' already exists."),
                      Clause("Exception", "Error creating file: {str(e)}") >>,
                   <<new_file_name>>, TRUE)
            /\ previous' = NoResult
            /\ UNCHANGED <<listing_order, current_directory, process_cwd, structureVars>>

\* Explorer.delete_file
DeleteFile ==
    \E file_name \in NameArgs :
        LET file_path == PathJoin(current_directory, file_name)
            call == OsRemove(fs, file_path)
        IN  /\ fs' = call.fs
            /\ result' = Outcome("delete_file", <<file_name>>, call.exc,
                   "File '{file_name}' deleted.",
                   << Clause("FileNotFoundError", "Error: File '{file_name}' not found."),
                      Clause("PermissionError", "Error: Permission denied to delete file '{file_name}'."),
                      Clause("Exception", "Error deleting file: {str(e)}") >>,
                   <<file_name>>, FALSE)
            /\ previous' = NoResult
            /\ UNCHANGED <<listing_order, current_directory, process_cwd, structureVars>>

\* Explorer.create_folder
CreateFolder ==
    \E folder_name \in NameArgs :
        LET folder_path == PathJoin(current_directory, folder_name)
            call == OsMakedirs(fs, folder_path)
        IN  /\ Cardinality(DOMAIN call.fs) <= MaxEntries
            /\ fs' = call.fs
            /\ result' = Outcome("create_folder", <<folder_name>>, call.exc,
                   "Folder '{folder_name}' created or already exists.",
                   << Clause("PermissionError", "Error: Permission denied to create folder '{folder_name}'."),
                      Clause("Exception", "Error creating folder: {str(e)}") >>,
                   <<folder_name>>, FALSE)
            /\ previous' = NoResult
            /\ UNCHANGED <<listing_order, current_directory, process_cwd, structureVars>>

\* self.current_directory at the end of change_directory: the assignment
\* stands after os.chdir in the try, so it is skipped when os.chdir raised
DirectoryAfter_assigned_first(call, new_directory) ==
    PathResolve(call.cwd, new_directory)
DirectoryAfter(call, new_directory) ==
    IF call.exc = "none" THEN PathResolve(call.cwd, new_directory)
    ELSE current_directory

\* Explorer.change_directory
ChangeDirectory ==
    \E new_directory \in DirectoryArgs :
        LET call == OsChdir(fs, process_cwd, new_directory)
        IN  /\ process_cwd' = call.cwd
            /\ current_directory' = DirectoryAfter(call, new_directory)
            /\ result' = Outcome("change_directory", <<new_directory>>, call.exc,
                   "Current working directory changed to: {self.current_directory}",
                   << Clause("FileNotFoundError", "Error: Directory '{new_directory}' not found."),
                      Clause("PermissionError", "Error: Permission denied to change directory to '{new_directory}'."),
                      Clause("Exception", "Error changing directory: {str(e)}") >>,
                   <<new_directory>>, FALSE)
            /\ previous' = NoResult
            /\ UNCHANGED <<fs, listing_order, structureVars>>

\* Explorer.delete_directory
DeleteDirectory ==
    \E directory_name \in NameArgs :
        LET directory_path == PathJoin(current_directory, directory_name)
            call == ShutilRmtree(fs, listing_order, directory_path)
        IN  /\ fs' = call.fs
            /\ result' = Outcome("delete_directory", <<directory_name>>, call.exc,
                   "Directory '{directory_name}' deleted.",
                   << Clause("FileNotFoundError", "Error: Directory '{directory_name}' not found."),
                      Clause("PermissionError", "Error: Permission denied to delete directory '{directory_name}'."),
                      Clause("Exception", "Error deleting directory: {str(e)}") >>,
                   <<directory_name>>, TRUE)
            /\ previous' = NoResult
            /\ UNCHANGED <<listing_order, current_directory, process_cwd, structureVars>>

\* another process takes every permission on an entry away
EnvProtect(paths) ==
    \E path \in paths :
        /\ fs[path].readable
        /\ fs' = [fs EXCEPT ![path].readable = FALSE]

-----------------------------------------------------------------------------
(* SpecMutate: a new Explorer works in /w.  Other processes fill the       *)
(* filesystem before its first call; the session then chooses its          *)
(* directory with change_directory and makes one change.                   *)

\* the names other processes give their entries, and the files they write
MutateNames == { S_a_py, S_d }
MutateFiles == { [content |-> S_hi, readable |-> TRUE] }

InitMutate ==
    /\ fs = (<<S_w>> :> [kind |-> "dir", content |-> DirBlock, readable |-> TRUE,
                         mtime |-> 1, ctime |-> 1])
    /\ listing_order = <<S_w, S_a_py, S_d>>
    /\ current_directory = <<S_w>>
    /\ process_cwd = <<>>
    /\ result = NoResult
    /\ previous = NoResult
    /\ show_file_content = FALSE
    /\ output = <<>>
    /\ include_file_types = None
    /\ exclude_file_types = None
    /\ structure = <<>>
    /\ pc = "new"
    /\ stack = <<>>
    /\ total_size = NoCall
    /\ valid_call = NoCall

MutateEnv ==
    /\ result = NoResult
    /\ \/ EnvCreateFile(RealDirs(fs), MutateNames, MutateFiles)
       \/ EnvMakeDir(RealDirs(fs), MutateNames)
       \/ EnvProtect(DOMAIN fs)
    /\ UNCHANGED <<listing_order, explorerVars, structureVars>>

\* no change made yet
Unchanged == result.op \in { "none", "change_directory" }

NextMutate ==
    \/ MutateEnv
    \/ Unchanged /\ ChangeDirectory
    \/ Unchanged /\ RenameFile
    \/ Unchanged /\ CreateNewFile
    \/ Unchanged /\ DeleteFile
    \/ Unchanged /\ CreateFolder
    \/ Unchanged /\ DeleteDirectory

SpecMutate == InitMutate /\ [][NextMutate]_vars

\* C11: whatever the system call of rename_file, delete_file,
\* create_new_file, create_folder, change_directory or delete_directory
\* raises (missing target, name collision, permission failure or any other
\* error), the call returns, and the error became a message: the text
\* returned, or the one line printed.
MessageOps ==
    { "rename_file", "delete_file", "create_new_file", "create_folder",
      "change_directory", "delete_directory" }

C11_ErrorsBecomeMessages ==
    result.op \in MessageOps =>
        /\ result.status = "returned"
        /\ result.exc # "none" =>
              LET texts == IF result.value = PyNone THEN result.printed
                           ELSE <<result.value>>
              IN  /\ Len(texts) = 1
                  /\ texts[1].template \in
                        { "Error: File '{old_name}' not found.",
                          "Error: File '{new_name}' already exists.",
                          "Error renaming file: {str(e)}",
                          "Error: File '{new_file_name}' already exists.",
                          "Error creating file: {str(e)}",
                          "Error: File '{file_name}' not found.",
                          "Error: Permission denied to delete file '{file_name}'.",
                          "Error deleting file: {str(e)}",
                          "Error: Permission denied to create folder '{folder_name}'.",
                          "Error creating folder: {str(e)}",
                          "Error: Directory '{new_directory}' not found.",
                          "Error: Permission denied to change directory to '{new_directory}'.",
                          "Error changing directory: {str(e)}",
                          "Error: Directory '{directory_name}' not found.",
                          "Error: Permission denied to delete directory '{directory_name}'.",
                          "Error deleting directory: {str(e)}" }

\* a call whose system call failed for a reason no except clause names
C11_Witness ==
    /\ result.op = "delete_file"
    /\ result.exc = "IsADirectoryError"
    /\ result.status = "returned"

\* what a returned value says about the call: nothing when it is None,
\* otherwise what its text says; a text made from str(e) names the error
ToldBy(value, exc) ==
    IF value = PyNone THEN "nothing"
    ELSE IF value.template \in { "File '{old_name}' renamed to '{new_name}'.",
                                 "File '{new_file_name}' created.",
                                 "Directory '{directory_name}' deleted." }
        THEN "success"
    ELSE IF value.template \in { "Error: File '{old_name}' not found.",
                                 "Error: Directory '{directory_name}' not found." }
        THEN "not found"
    ELSE IF value.template \in { "Error: File '{new_name}' already exists.",
                                 "Error: File '{new_file_name}' already exists." }
        THEN "already exists"
    ELSE IF value.template =
                "Error: Permission denied to delete directory '{directory_name}'."
        THEN "permission denied"
    ELSE exc

\* what the system call of the operation did
Happened(exc) ==
    IF exc = "none" THEN "success"
    ELSE IF exc = "FileNotFoundError" THEN "not found"
    ELSE IF exc = "FileExistsError" THEN "already exists"
    ELSE IF exc = "PermissionError" THEN "permission denied"
    ELSE exc

\* C12: the value a mutation operation returns tells whether it succeeded
\* and, if not, which kind of failure it was (stated for the six operations
\* that work in current_directory).
C12_ReturnTellsOutcome ==
    result.op \in MessageOps =>
        /\ result.status = "returned"
        /\ ToldBy(result.value, result.exc) = Happened(result.exc)

\* the operations said to work inside current_directory
ConfinedOps ==
    { "rename_file", "delete_file", "create_new_file", "create_folder",
      "delete_directory" }

\* the entries a step creates, changes or removes
Touched ==
    { q \in DOMAIN fs \cup DOMAIN fs' :
          \/ q \notin DOMAIN fs
          \/ q \notin DOMAIN fs'
          \/ fs[q] # fs'[q] }

\* C20: a call of rename_file, delete_file, create_new_file, create_folder
\* or delete_directory creates, changes and removes only entries below
\* current_directory, whatever name it is given.
C20_ChangesStayInside ==
    [][result'.op \in ConfinedOps =>
           \A q \in Touched : IsPrefix(current_directory, q) /\ q # current_directory]_vars

-----------------------------------------------------------------------------
(* Explorer.extract_archive                                                *)
(*                                                                         *)
(* A zip archive is modelled in a small format that keeps what zipfile     *)
(* checks: member records of three bytes (name, data, checksum of the      *)
(* data) followed by the end-of-directory record.                          *)

S_z == <<122>>                                         \* "z"
S_a == <<97>>                                          \* "a"
S_b == <<98>>                                          \* "b"
ZipEnd == <<80, 75>>                                   \* end-of-directory record

\* the checksum zipfile compares with the one stored for a member
RECURSIVE Crc(_)
Crc(data) == IF data = <<>> THEN 0 ELSE (Head(data) + 3 * Crc(Tail(data))) % 256

Z_good       == <<97, 120, 120, 98, 121, 121>> \o ZipEnd   \* a: "x", b: "y"
Z_bad_second == <<97, 120, 120, 98, 121, 0>> \o ZipEnd     \* data of b damaged
Z_bad_first  == <<97, 120, 0, 98, 121, 121>> \o ZipEnd     \* data of a damaged
Z_truncated  == <<97, 120, 120, 98, 121, 121>>             \* directory missing

\* zipfile.ZipFile(path): is there a directory the members can be read from
HasDirectory(bytes) ==
    /\ Len(bytes) >= Len(ZipEnd)
    /\ SubSeq(bytes, Len(bytes) - Len(ZipEnd) + 1, Len(bytes)) = ZipEnd
    /\ (Len(bytes) - Len(ZipEnd)) % 3 = 0

\* ZipFile.infolist(): the members in archive order
InfoList(bytes) ==
    [i \in 1..((Len(bytes) - Len(ZipEnd)) \div 3) |->
        [name |-> <<bytes[3 * i - 2]>>,
         data |-> <<bytes[3 * i - 1]>>,
         crc |-> bytes[3 * i]]]

\* ZipFile.extract of one member below the real directory: the target is
\* opened for writing, then the data is read and checked, then written
ExtractMember(f, dir, member) ==
    LET opened == OpenForWriting(f, Append(dir, member.name), <<>>)
    IN  IF opened.exc # "none" THEN opened
        ELSE IF Crc(member.data) # member.crc THEN Fails("BadZipFile", opened.fs)
        ELSE OpenForWriting(opened.fs, Append(dir, member.name), member.data)

\* ZipFile.extractall: the members one after the other, the destination
\* made when it is missing; the first error ends it
RECURSIVE ExtractAll(_, _, _)
ExtractAll(f, path, members) ==
    IF members = <<>> THEN Done(f)
    ELSE LET made == IF PathExists(f, path) THEN Done(f) ELSE OsMakedirs(f, path)
             dir == Resolve(made.fs, path)
             first == IF made.exc # "none" THEN made
                      ELSE IF ~dir.ok THEN Fails("FileNotFoundError", made.fs)
                      ELSE ExtractMember(made.fs, dir.real, Head(members))
         IN  IF first.exc # "none" THEN first
             ELSE ExtractAll(first.fs, path, Tail(members))

\* zipfile.ZipFile(archive_path, 'r') and extractall(destination)
ZipExtract(f, archive_path, destination_path) ==
    LET r == Resolve(f, archive_path)
    IN  IF ~r.ok THEN Fails("FileNotFoundError", f)
        ELSE IF KindOf(f, r.real) = "dir" THEN Fails("IsADirectoryError", f)
        ELSE IF ~f[r.real].readable THEN Fails("PermissionError", f)
        ELSE IF ~HasDirectory(f[r.real].content) THEN Fails("BadZipFile", f)
        ELSE ExtractAll(f, destination_path, InfoList(f[r.real].content))

\* the outcome of a call whose statements are in no try statement: the
\* value returned, or the exception, which reaches the caller
Unhandled(op, args, exc, value) ==
    [op |-> op, args |-> args,
     status |-> IF exc = "none" THEN "returned" ELSE "raised",
     value |-> IF exc = "none" THEN value ELSE exc,
     printed |-> <<>>, exc |-> exc]

\* the arguments of extract_archive
ArchiveArgs == { S_z, S_a_py }
DestinationArgs == { S_d, S_abs_d }

\* Explorer.extract_archive: no try statement, nothing returned
ExtractArchive ==
    \E archive_file \in ArchiveArgs, destination \in DestinationArgs :
        LET archive_path == PathJoin(current_directory, archive_file)
            call == ZipExtract(fs, archive_path, PathJoin(process_cwd, destination))
        IN  /\ fs' = call.fs
            /\ result' = Unhandled("extract_archive", <<archive_file, destination>>,
                                   call.exc, PyNone)
            /\ previous' = NoResult
            /\ UNCHANGED <<listing_order, current_directory, process_cwd, structureVars>>

-----------------------------------------------------------------------------
(* SpecArchive: a new Explorer works in /w; other processes put archives   *)
(* and other entries into the filesystem before its first call             *)

ArchiveNames == { S_z, S_a }
ArchiveFiles ==
    { [content |-> Z_good, readable |-> TRUE],
      [content |-> Z_bad_second, readable |-> TRUE],
      [content |-> Z_bad_first, readable |-> TRUE],
      [content |-> Z_truncated, readable |-> TRUE],
      [content |-> S_hi, readable |-> TRUE],
      [content |-> Z_good, readable |-> FALSE] }

InitArchive ==
    /\ fs = (<<S_w>> :> [kind |-> "dir", content |-> DirBlock, readable |-> TRUE,
                         mtime |-> 1, ctime |-> 1])
    /\ listing_order = <<S_w, S_z, S_a, S_b, S_d>>
    /\ current_directory = <<S_w>>
    /\ process_cwd \in { <<>>, <<S_w>> }
    /\ result = NoResult
    /\ previous = NoResult
    /\ show_file_content = FALSE
    /\ output = <<>>
    /\ include_file_types = None
    /\ exclude_file_types = None
    /\ structure = <<>>
    /\ pc = "new"
    /\ stack = <<>>
    /\ total_size = NoCall
    /\ valid_call = NoCall

ArchiveEnv ==
    /\ result = NoResult
    /\ \/ EnvCreateFile(RealDirs(fs), ArchiveNames, ArchiveFiles)
       \/ EnvMakeDir(RealDirs(fs), { S_d })
    /\ UNCHANGED <<listing_order, explorerVars, structureVars>>

NextArchive ==
    \/ ArchiveEnv
    \/ ExtractArchive

SpecArchive == InitArchive /\ [][NextArchive]_vars

\* is the file an archive that extracts without an archive error
IntactArchive(bytes) ==
    /\ HasDirectory(bytes)
    /\ \A i \in DOMAIN InfoList(bytes) :
           Crc(InfoList(bytes)[i].data) = InfoList(bytes)[i].crc

\* the archive the call named is a readable file that is no intact archive
NamedCorruptArchive(call) ==
    LET archive_path == PathJoin(current_directory, call.args[1])
    IN  /\ IsFile(fs, archive_path)
        /\ fs[Resolve(fs, archive_path).real].readable
        /\ ~IntactArchive(fs[Resolve(fs, archive_path).real].content)

\* C13: extract_archive of a corrupt or non-zip archive fails with the
\* invalid-archive error and leaves the filesystem, the destination in
\* particular, exactly as it was: no member is written, whether the
\* directory of the archive or the data of a later member is damaged.
C13_CorruptArchiveWritesNothing ==
    [][(result'.op = "extract_archive" /\ NamedCorruptArchive(result')) =>
           /\ result'.status = "raised"
           /\ result'.value = "BadZipFile"
           /\ fs' = fs]_vars

-----------------------------------------------------------------------------
(* Explorer: reading the text of files                                     *)

S_n_TXT   == <<110, 46, 84, 88, 84>>                         \* "n.TXT"
S_dot_txt == <<46, 116, 120, 116>>                           \* ".txt"
T_lines   == <<104, 105, 32, 121, 111, 10, 104, 105, 10>>    \* "hi yo\nhi\n"
T_crlf    == <<104, 105, 32, 121, 111, 13, 10, 104, 105, 13, 10>>  \* "hi yo\r\nhi\r\n"
T_other   == <<104, 105, 32, 121, 111, 10, 104, 97, 10>>     \* "hi yo\nha\n"
S_Error_decoding ==
    <<69, 114, 114, 111, 114, 32, 100, 101, 99, 111, 100, 105, 110, 103>>  \* "Error decoding"
S_Error_reading ==
    <<69, 114, 114, 111, 114, 32, 114, 101, 97, 100, 105, 110, 103>>  \* "Error reading"
S_colon == <<58, 32>>                                        \* ": "
S_space == <<32>>                                            \* " "
S_ENOENT ==                             \* "[Errno 2] No such file or directory"
    <<91, 69, 114, 114, 110, 111, 32, 50, 93, 32, 78, 111, 32, 115, 117, 99,
      104, 32, 102, 105, 108, 101, 32, 111, 114, 32, 100, 105, 114, 101, 99,
      116, 111, 114, 121>>
S_EISDIR ==                             \* "[Errno 21] Is a directory"
    <<91, 69, 114, 114, 110, 111, 32, 50, 49, 93, 32, 73, 115, 32, 97, 32,
      100, 105, 114, 101, 99, 116, 111, 114, 121>>
S_EACCES ==                             \* "[Errno 13] Permission denied"
    <<91, 69, 114, 114, 110, 111, 32, 49, 51, 93, 32, 80, 101, 114, 109, 105,
      115, 115, 105, 111, 110, 32, 100, 101, 110, 105, 101, 100>>
S_codec ==                              \* "codec can't decode byte"
    <<99, 111, 100, 101, 99, 32, 99, 97, 110, 39, 116, 32, 100, 101, 99, 111,
      100, 101, 32, 98, 121, 116, 101>>

\* str.split() separators, "\n" and "\r"
Whitespace == { 9, 10, 11, 12, 13, 32 }
Newline == <<10>>
Return == <<13>>

\* text mode: "\r\n" and "\r" are read as "\n"
RECURSIVE TranslateNewlines(_)
TranslateNewlines(t) ==
    IF t = <<>> THEN <<>>
    ELSE IF Head(t) = Return[1]
        THEN Newline \o TranslateNewlines(IF Len(t) > 1 /\ t[2] = Newline[1]
                                          THEN Tail(Tail(t)) ELSE Tail(t))
    ELSE <<Head(t)>> \o TranslateNewlines(Tail(t))

\* bytes decoded with an encoding; "None" is the default of open(), UTF-8.
\* Only latin-1 gives every byte a character.
Decode(bytes, encoding) ==
    IF encoding = "latin-1" \/ Decodable(bytes)
    THEN [exc |-> "none", text |-> TranslateNewlines(bytes)]
    ELSE [exc |-> "UnicodeDecodeError", text |-> <<>>]

\* open(path, 'r') / open(path, 'rb'): the bytes of the file, or the error
OpenForReading(f, path) ==
    LET r == Resolve(f, path)
    IN  IF ~r.ok THEN [exc |-> "FileNotFoundError", bytes |-> <<>>]
        ELSE IF KindOf(f, r.real) = "dir"
            THEN [exc |-> "IsADirectoryError", bytes |-> <<>>]
        ELSE IF ~f[r.real].readable THEN [exc |-> "PermissionError", bytes |-> <<>>]
        ELSE [exc |-> "none", bytes |-> f[r.real].content]

\* chardet.detect(...)['encoding']: the encodings the detector may name
ChardetDetect(bytes) ==
    IF bytes = <<>> THEN { "None" }
    ELSE IF Decodable(bytes) THEN { "ascii" }
    ELSE { "None", "utf-8", "latin-1" }

\* the lines of a text, each with its "\n"
RECURSIVE SplitLines(_)
SplitLines(t) ==
    IF t = <<>> THEN <<>>
    ELSE LET ends == { i \in 1..Len(t) : t[i] = Newline[1] }
             cut == IF ends = {} THEN Len(t)
                    ELSE CHOOSE i \in ends : \A j \in ends : i <= j
         IN  <<SubSeq(t, 1, cut)>> \o SplitLines(SubSeq(t, cut + 1, Len(t)))

\* ''.join(...)
RECURSIVE Join(_)
Join(strings) ==
    IF strings = <<>> THEN <<>> ELSE Head(strings) \o Join(Tail(strings))

\* str.split(): the tokens between runs of whitespace
RECURSIVE Split(_)
Split(t) ==
    IF t = <<>> THEN <<>>
    ELSE IF Head(t) \in Whitespace THEN Split(Tail(t))
    ELSE LET gaps == { i \in 1..Len(t) : t[i] \in Whitespace }
             cut == IF gaps = {} THEN Len(t) + 1
                    ELSE CHOOSE i \in gaps : \A j \in gaps : i <= j
         IN  <<SubSeq(t, 1, cut - 1)>> \o Split(SubSeq(t, cut, Len(t)))

\* PurePath.suffix: from the last dot of the name, unless the name starts
\* or ends with it
Suffix(name) ==
    LET dots == { i \in 1..Len(name) : name[i] = S_dot_txt[1] }
        last == CHOOSE i \in dots : \A j \in dots : j <= i
    IN  IF dots = {} THEN <<>>
        ELSE IF last = 1 \/ last = Len(name) THEN <<>>
        ELSE SubSeq(name, last, Len(name))

\* str(e)
ExcText(exc) ==
    IF exc = "FileNotFoundError" THEN S_ENOENT
    ELSE IF exc = "IsADirectoryError" THEN S_EISDIR
    ELSE IF exc = "PermissionError" THEN S_EACCES
    ELSE IF exc = "UnicodeDecodeError" THEN S_codec
    ELSE <<>>

\* None, or an int
Count(n) == [isNone |-> FALSE, count |-> n]

\* the try body of read_file_content: the encoding is detected (the file is
\* opened for that), the file is opened again and read whole, or line by
\* line with next(file); what is read is decoded on the first read
TryRead(f, path, num_lines, encoding) ==
    LET opened == OpenForReading(f, path)
        decoded == Decode(opened.bytes, encoding)
        lines == SplitLines(decoded.text)
    IN  IF opened.exc # "none" THEN [exc |-> opened.exc, text |-> <<>>]
        ELSE IF num_lines.isNone THEN decoded
        ELSE IF num_lines.count <= 0 THEN [exc |-> "none", text |-> <<>>]
        ELSE IF decoded.exc # "none" THEN decoded
        ELSE IF num_lines.count > Len(lines)
            THEN [exc |-> "StopIteration", text |-> <<>>]
        ELSE [exc |-> "none", text |-> Join(SubSeq(lines, 1, num_lines.count))]

\* the except clauses of read_file_content and the words their texts begin
\* with
ReadClauses_decoding_only ==
    << [class |-> "UnicodeDecodeError", label |-> S_Error_decoding] >>
ReadClauses ==
    << [class |-> "UnicodeDecodeError", label |-> S_Error_decoding],
       [class |-> "Exception", label |-> S_Error_reading] >>

\* the clauses that catch the exception
Catching(clauses, exc) == SelectSeq(clauses, LAMBDA c : Catches(c.class, exc))

\* Explorer.read_file_content as a function of the filesystem: the string
\* returned, or the exception that no clause catches
ReadFileContentOf(f, name, path, num_lines, encoding) ==
    LET read == TryRead(f, path, num_lines, encoding)
        clauses == Catching(ReadClauses, read.exc)
    IN  IF read.exc = "none"
            THEN [raised |-> FALSE, exc |-> "none", value |-> read.text]
        ELSE IF clauses = <<>>
            THEN [raised |-> TRUE, exc |-> read.exc, value |-> <<>>]
        ELSE [raised |-> FALSE, exc |-> read.exc,
              value |-> clauses[1].label \o S_space \o name \o S_colon
                            \o ExcText(read.exc)]

\* the arguments of the reading operations; a relative file_path is looked
\* up from the working directory of the process
ReadNames == { S_c_txt, S_n_TXT, S_a_py }
NumLinesArgs == { None, Count(0), Count(1), Count(3) }

\* Explorer.read_file_content
ReadFileContent ==
    \E file_path \in ReadNames, num_lines \in NumLinesArgs :
      LET path == PathJoin(process_cwd, file_path)
      IN  \E encoding \in ChardetDetect(OpenForReading(fs, path).bytes) :
            LET call == ReadFileContentOf(fs, file_path, path, num_lines, encoding)
            IN  /\ result' = [op |-> "read_file_content",
                              args |-> <<file_path, num_lines>>,
                              status |-> IF call.raised THEN "raised" ELSE "returned",
                              value |-> call.value,
                              printed |-> <<>>, exc |-> call.exc]
                /\ previous' = NoResult
                /\ UNCHANGED <<fs, listing_order, current_directory, process_cwd,
                               structureVars>>

\* len(set(...))
Distinct(tokens) == Cardinality({ tokens[i] : i \in 1..Len(tokens) })

\* Explorer.analyze_text_file: prints, returns None
AnalyzeTextFile ==
    \E file_path \in ReadNames :
      LET path == PathJoin(process_cwd, file_path)
      IN  \E encoding \in ChardetDetect(OpenForReading(fs, path).bytes) :
            LET call == ReadFileContentOf(fs, file_path, path, None, encoding)
                content == call.value
                word_count == Len(Split(content))
                unique_words == Distinct(Split(content))
                report ==
                    IF Lower(Suffix(file_path)) = S_dot_txt
                    THEN << Message("Text analysis for {file_path}:", <<file_path>>),
                            Message("Total words: {word_count}", <<word_count>>),
                            Message("Unique words: {unique_words}", <<unique_words>>),
                            Message("----------------------------------------", <<>>) >>
                    ELSE << Message("Cannot analyze content of {file_path}. Unsupported file type.",
                                    <<file_path>>),
                            Message("----------------------------------------", <<>>) >>
                raised == Lower(Suffix(file_path)) = S_dot_txt /\ call.raised
            IN  /\ result' = [op |-> "analyze_text_file", args |-> <<file_path>>,
                              status |-> IF raised THEN "raised" ELSE "returned",
                              value |-> PyNone,
                              printed |-> IF raised THEN <<>> ELSE report,
                              exc |-> IF Lower(Suffix(file_path)) = S_dot_txt
                                      THEN call.exc ELSE "none"]
                /\ previous' = NoResult
                /\ UNCHANGED <<fs, listing_order, current_directory, process_cwd,
                               structureVars>>

\* Path.read_text(): opened with the default encoding, read whole
ReadText(f, path) ==
    LET opened == OpenForReading(f, path)
    IN  IF opened.exc # "none" THEN [exc |-> opened.exc, text |-> <<>>]
        ELSE Decode(opened.bytes, "None")

\* the == of compare_files
SameText_length(text1, text2) == Len(text1) = Len(text2)
SameText(text1, text2) == text1 = text2

\* Explorer.compare_files: no try statement
CompareFiles ==
    \E file1 \in ReadNames, file2 \in ReadNames :
        LET file1_path == PathJoin(current_directory, file1)
            file2_path == PathJoin(current_directory, file2)
            read1 == ReadText(fs, file1_path)
            read2 == ReadText(fs, file2_path)
        IN  /\ result' = Unhandled("compare_files", <<file1, file2>>,
                             IF read1.exc # "none" THEN read1.exc ELSE read2.exc,
                             SameText(read1.text, read2.text))
            /\ previous' = IF result.op = "compare_files"
                              /\ result.args = <<file2, file1>>
                           THEN result ELSE NoResult
            /\ UNCHANGED <<fs, listing_order, current_directory, process_cwd,
                           structureVars>>

-----------------------------------------------------------------------------
(* SpecRead: a new Explorer works in /w, where the process was started;    *)
(* other processes put files into /w before its first call                 *)

\* the files other processes wrote: texts, bytes that are no text, an empty
\* file and a file this process may not open
ReadFiles ==
    { [content |-> T_lines, readable |-> TRUE],
      [content |-> T_crlf, readable |-> TRUE],
      [content |-> T_other, readable |-> TRUE],
      [content |-> B_binary, readable |-> TRUE],
      [content |-> <<>>, readable |-> TRUE],
      [content |-> T_lines, readable |-> FALSE] }

InitRead ==
    /\ fs = (<<S_w>> :> [kind |-> "dir", content |-> DirBlock, readable |-> TRUE,
                         mtime |-> 1, ctime |-> 1])
    /\ listing_order = <<S_w, S_c_txt, S_n_TXT, S_a_py>>
    /\ current_directory = <<S_w>>
    /\ process_cwd = <<S_w>>
    /\ result = NoResult
    /\ previous = NoResult
    /\ show_file_content = FALSE
    /\ output = <<>>
    /\ include_file_types = None
    /\ exclude_file_types = None
    /\ structure = <<>>
    /\ pc = "new"
    /\ stack = <<>>
    /\ total_size = NoCall
    /\ valid_call = NoCall

ReadEnv ==
    /\ result = NoResult
    /\ \/ EnvCreateFile({ current_directory }, ReadNames, ReadFiles)
       \/ EnvMakeDir({ current_directory }, ReadNames)
    /\ UNCHANGED <<listing_order, explorerVars, structureVars>>

\* the operations read only, so what a call does depends on no call before
\* it: a session is one call, or a row of comparisons
NextRead ==
    \/ ReadEnv
    \/ result = NoResult /\ ReadFileContent
    \/ result = NoResult /\ AnalyzeTextFile
    \/ result.op \in { "none", "compare_files" } /\ CompareFiles

SpecRead == InitRead /\ [][NextRead]_vars

\* a file of current_directory that is readable text
ReadableText(name) ==
    LET path == Append(current_directory, name)
    IN  /\ path \in DOMAIN fs
        /\ fs[path].kind = "file"
        /\ fs[path].readable
        /\ \A i \in 1..Len(fs[path].content) : fs[path].content[i] < 128

\* the decoded content of a text file whose lines end with "\n" or "\r\n":
\* its characters, the line ends being "\n"
TextOf(name) ==
    LET bytes == fs[Append(current_directory, name)].content
    IN  SelectSeq(bytes, LAMBDA c : c # 13)

\* C14: for two readable text files, compare_files returns True for a file
\* and itself, the same value for (a, b) as for (b, a), and True exactly
\* when the two decoded contents are equal.
C14_CompareIsContentEquality ==
    (/\ result.op = "compare_files"
     /\ ReadableText(result.args[1])
     /\ ReadableText(result.args[2])) =>
        /\ result.status = "returned"
        /\ result.value = (TextOf(result.args[1]) = TextOf(result.args[2]))
        /\ result.args[1] = result.args[2] => result.value
        /\ previous.op = "compare_files" => previous.value = result.value

\* two different files of the same length compared both ways
C14_Witness ==
    /\ result.op = "compare_files"
    /\ previous.op = "compare_files"
    /\ ReadableText(result.args[1])
    /\ ReadableText(result.args[2])
    /\ Len(TextOf(result.args[1])) = Len(TextOf(result.args[2]))
    /\ ~result.value

\* C18: read_file_content returns for every path (missing, a directory,
\* bytes that do not decode, an empty file, a file the detector names no
\* encoding for) and every num_lines; what it returns is a string, and when
\* reading failed the string begins with "Error decoding" or "Error
\* reading".
C18_ReadAlwaysReturnsString ==
    result.op = "read_file_content" =>
        /\ result.status = "returned"
        /\ result.value \in Seq(0..255)
        /\ result.exc # "none" =>
              \/ StartsWith(result.value, S_Error_decoding)
              \/ StartsWith(result.value, S_Error_reading)

\* more lines asked for than the file has
C18_Witness ==
    /\ result.op = "read_file_content"
    /\ result.exc = "StopIteration"
    /\ StartsWith(result.value, S_Error_reading)

\* the texts the file's own bytes decode to, none when it cannot be opened
OwnTexts(name) ==
    LET opened == OpenForReading(fs, PathJoin(process_cwd, name))
    IN  IF opened.exc # "none" THEN {}
        ELSE { Decode(opened.bytes, encoding).text :
                   encoding \in { e \in ChardetDetect(opened.bytes) :
                                      Decode(opened.bytes, e).exc = "none" } }

\* the numbers a report gives in its lines of one kind
Reported(lines, template) ==
    { lines[i].values[1] : i \in { j \in 1..Len(lines) : lines[j].template = template } }

\* C19: for a .txt file (any case) whose content can be read,
\* analyze_text_file reports the number of whitespace-separated tokens of
\* that content as total words and the number of distinct tokens as unique
\* words, unique <= total; for any other extension, and for a .txt file
\* whose content cannot be read, it reports a notice and no word counts.
C19_CountsAreOfOwnContent ==
    result.op = "analyze_text_file" =>
        LET name == result.args[1]
            totals == Reported(result.printed, "Total words: {word_count}")
            uniques == Reported(result.printed, "Unique words: {unique_words}")
        IN  /\ result.status = "returned"
            /\ IF Lower(Suffix(name)) = S_dot_txt /\ result.exc = "none"
               THEN \E text \in OwnTexts(name) :
                       /\ totals = { Len(Split(text)) }
                       /\ uniques = { Distinct(Split(text)) }
                       /\ Distinct(Split(text)) <= Len(Split(text))
               ELSE totals = {} /\ uniques = {}

-----------------------------------------------------------------------------
(* ProjectStructure: the shape of the nodes                                *)

\* a dict: no key twice
IsMapping(d) == \A i, j \in 1..Len(d) : d[i].key = d[j].key => i = j

\* C17: every node of the tree is exactly one of a file and a folder: a file
\* node has no "content" and has its size and modified set; a folder node
\* has a mapping of children as "content" and None as size and as modified.
C17_NodesAreFileOrFolder ==
    \A q \in NodePaths(structure) :
        LET node == NodeAt(structure, q)
        IN  \/ /\ node.type = "file"
               /\ DOMAIN node = { "type", "size", "modified" }
               /\ node.size # PyNone
               /\ node.modified # PyNone
            \/ /\ node.type = "folder"
               /\ DOMAIN node = { "type", "size", "modified", "content" }
               /\ node.size = PyNone
               /\ node.modified = PyNone
               /\ IsMapping(node.content)

\* a scan is over that made a folder node with a file node and a folder
\* node in it
C17_Witness ==
    /\ pc = "done"
    /\ \E q \in FolderNodePaths :
          /\ \E r \in FileNodePaths : Front(r) = q
          /\ \E r \in FolderNodePaths : Front(r) = q

-----------------------------------------------------------------------------
(* ProjectStructure.draw_project_structure                                 *)

\* a printed line: the indentation prefix repeated indent times, then the
\* formatted text
Line(indent, template, values) ==
    [indent |-> indent, text |-> Message(template, values)]

\* what open(file_path, 'r') and the read leave of the file
OpenedForReading_truncated(entry) == [entry EXCEPT !.content = <<>>]
OpenedForReading(entry) == entry

\* _draw_file_content: the lines it prints
DrawFileContent(file_name, indent) ==
    LET file_path == SizePath(file_name)
        opened == OpenForReading(fs, file_path)
        decoded == Decode(opened.bytes, "utf-8")
        exc == IF opened.exc # "none" THEN opened.exc ELSE decoded.exc
    IN  IF exc = "none"
        THEN << Line(indent, "Content:", <<>>),
                Line(0, "{content}", <<decoded.text>>) >>
        ELSE << Line(indent, "Error reading content of {file_name}: {str(e)}",
                     <<file_name, ExcText(exc)>>) >>

\* the line of the total size, and the calls of draw_project_structure that
\* print it: if indent == 0
TotalLine ==
    Line(0, "\nTotal Project Size: {size(total_size)}",
         <<FormatSize(CalculateFolderSize(structure))>>)
TotalDue_every_call(indent) == TRUE
TotalDue(indent) == indent = 0

\* draw_project_structure(node, indent): the lines a call prints, those of
\* its for loop over the items of node (DrawLines) and then the total line
RECURSIVE DrawLines(_, _), DrawCall(_, _)
DrawCall(node, indent) ==
    DrawLines(node, indent) \o (IF TotalDue(indent) THEN <<TotalLine>> ELSE <<>>)
DrawLines(node, indent) ==
    IF node = <<>> THEN <<>>
    ELSE LET name == Head(node).key
             info == Head(node).val
             own ==
                 IF info.type = "folder"
                 THEN << Line(indent, "- {name} (Folder)", <<name>>) >>
                      \o (IF info.size # PyNone
                          THEN << Line(indent + 1, "Size: {info['size']}", <<info.size>>) >>
                          ELSE <<>>)
                      \o (IF info.modified # PyNone
                          THEN << Line(indent + 1, "Last Modified: {info['modified']}",
                                       <<info.modified>>) >>
                          ELSE <<>>)
                      \o DrawCall(info.content, indent + 1)
                 ELSE IF info.type = "file"
                 THEN << Line(indent, "- {name} (File)", <<name>>),
                         Line(indent + 1, "Size: {info['size']}", <<info.size>>),
                         Line(indent + 1, "Last Modified: {info['modified']}",
                              <<info.modified>>) >>
                      \o (IF show_file_content
                          THEN DrawFileContent(name, indent + 1) ELSE <<>>)
                 ELSE <<>>
         IN  own \o DrawLines(Tail(node), indent)

\* the files _draw_file_content opens and reads during one drawing
RECURSIVE FilesDrawn(_)
FilesDrawn(node) ==
    IF node = <<>> \/ ~show_file_content THEN {}
    ELSE LET name == Head(node).key
             info == Head(node).val
             own == IF info.type = "folder" THEN FilesDrawn(info.content)
                    ELSE IF OpenForReading(fs, SizePath(name)).exc = "none"
                        THEN { Resolve(fs, SizePath(name)).real }
                    ELSE {}
         IN  own \cup FilesDrawn(Tail(node))

\* draw_project_structure(): node is None, so node = self.structure
DrawProjectStructure ==
    /\ pc \in { "new", "done" }
    /\ output' = DrawCall(structure, 0)
    /\ fs' = IF FilesDrawn(structure) = {} THEN fs
             ELSE [q \in DOMAIN fs |->
                      IF q \in FilesDrawn(structure)
                      THEN OpenedForReading(fs[q]) ELSE fs[q]]
    /\ UNCHANGED <<listing_order, include_file_types, exclude_file_types,
                   structure, pc, stack, total_size, valid_call, show_file_content,
                   explorerVars>>

\* the caller sets show_file_content
SetShowFileContent ==
    /\ pc \in { "new", "done" }
    /\ show_file_content' \in BOOLEAN \ { show_file_content }
    /\ UNCHANGED <<fs, listing_order, include_file_types, exclude_file_types,
                   structure, pc, stack, total_size, valid_call, output,
                   explorerVars>>

-----------------------------------------------------------------------------
(* SpecDraw: one scan of a tree, drawn before and after it, with and       *)
(* without file contents                                                   *)

InitDraw ==
    /\ include_file_types = None
    /\ exclude_file_types = List(<<S_dot_log>>)
    /\ fs = <<>>
    /\ listing_order \in TreeOrders
    /\ structure = <<>>
    /\ pc = "new"
    /\ stack = <<>>
    /\ total_size = NoCall
    /\ valid_call = NoCall
    /\ current_directory = <<>>
    /\ result = NoResult
    /\ previous = NoResult
    /\ process_cwd = <<>>
    /\ show_file_content = FALSE
    /\ output = <<>>

NextDraw ==
    \/ TreeEnv
    \/ ReadProjectStructure
    \/ BuildFolder
    \/ BuildFile
    \/ BuildSkip
    \/ BuildReturn
    \/ SetShowFileContent
    \/ DrawProjectStructure

SpecDraw == InitDraw /\ [][NextDraw]_vars

\* C15: draw_project_structure, with show_file_content on or off, leaves
\* self.structure and the filesystem as they were.
C15_DrawChangesNothing ==
    [][DrawProjectStructure => (structure' = structure /\ fs' = fs)]_vars

\* a tree has been drawn with the content of one of its files
C15_Witness ==
    /\ pc = "done"
    /\ show_file_content
    /\ structure # <<>>
    /\ \E i \in 1..Len(output) : output[i].text.template = "{content}"

-----------------------------------------------------------------------------
(* SpecRemoved: one scan of a tree; other processes remove files after the *)
(* scan and before the total is taken                                      *)

\* another process removes a regular file
EnvRemoveFile ==
    \E q \in DOMAIN fs :
        /\ fs[q].kind = "file"
        /\ fs' = Without(fs, { q })

RemovedEnv ==
    /\ pc = "done"
    /\ ~total_size.called
    /\ EnvRemoveFile
    /\ UNCHANGED <<listing_order, include_file_types, exclude_file_types,
                   structure, pc, stack, total_size, valid_call, explorerVars, drawVars>>

NextRemoved ==
    \/ TreeEnv
    \/ ReadProjectStructure
    \/ BuildFolder
    \/ BuildFile
    \/ BuildSkip
    \/ BuildReturn
    \/ RemovedEnv
    \/ CalculateTotalSize

SpecRemoved == InitTree /\ [][NextRemoved]_vars

\* the file nodes whose file is still on disk
FileNodesOnDisk ==
    { q \in FileNodePaths : q \in DOMAIN fs /\ fs[q].kind = "file" }

\* C16: when a file recorded in the tree has been removed from disk before
\* _calculate_total_size is called, the call returns, the removed file
\* counts 0 and every other file of the tree counts its current size.
C16_RemovedFileCountsZero ==
    (/\ pc = "done"
     /\ total_size.called
     /\ FileNodePaths # FileNodesOnDisk) =>
        total_size.value = BytesOnDisk(FileNodesOnDisk)


-----------------------------------------------------------------------------
(* C30: letter case of the name and of the filter entries                  *)

\* a filter list with every entry lower-cased
LowerList(l) ==
    IF l.isNone THEN l
    ELSE List([i \in 1..Len(l.items) |-> Lower(l.items[i])])

\* C30: the extension match of _is_valid_file ignores letter case on both
\* sides: the call gives the result it gives when the file name and every
\* entry of the include and exclude lists are lower-cased first (so include
\* [".PY"] accepts "a.py" and exclude [".LOG"] rejects "report.log").
C30_CaseIgnoredOnBothSides ==
    valid_call.called =>
        valid_call.result =
            IsValidFile(Lower(valid_call.name), LowerList(include_file_types),
                        LowerList(exclude_file_types))


-----------------------------------------------------------------------------
(* C28: the first lines of a file                                          *)

\* the first min(n, L) lines of a text of L lines, line ends included
FirstLines(text, n) ==
    LET ends == { i \in 1..Len(text) : text[i] = 10 }
        upto(i) == Cardinality({ j \in ends : j <= i })
    IN  IF n <= 0 THEN <<>>
        ELSE IF Cardinality(ends) < n THEN text
        ELSE SubSeq(text, 1, CHOOSE i \in ends : upto(i) = n)

\* C28: read_file_content(path, num_lines = n) on a readable text file of L
\* lines returns its first min(n, L) lines, and its whole content when
\* num_lines is None; asking for more lines than the file has returns the
\* content there is, not an error string.
C28_FirstLinesOrWhole ==
    (/\ result.op = "read_file_content"
     /\ ReadableText(result.args[1])) =>
        /\ result.status = "returned"
        /\ result.value =
               IF result.args[2].isNone THEN TextOf(result.args[1])
               ELSE FirstLines(TextOf(result.args[1]), result.args[2].count)


-----------------------------------------------------------------------------
(* Explorer.create_file_type, and creating a file that exists              *)

S_py  == <<112, 121>>                                  \* "py"
S_exe == <<101, 120, 101>>                             \* "exe"
S_txt == <<116, 120, 116>>                             \* "txt"
S_json == <<106, 115, 111, 110>>                       \* "json"
S_js  == <<106, 115>>                                  \* "js"

\* allowed_types of create_file_type
AllowedTypes == { S_txt, S_json, S_py, S_js }

\* file_name + '.' + file_type
TypedName(file_name, file_type) == file_name \o <<46>> \o file_type

\* the file_name and file_type arguments of create_file_type
FileNameArgs == { S_a }
FileTypeArgs == { S_py, S_exe }

\* Explorer.create_file_type
CreateFileType ==
    \E file_name \in FileNameArgs, content \in ContentArgs, file_type \in FileTypeArgs :
        LET file_path == PathJoin(current_directory, TypedName(file_name, file_type))
            call == OpenForWriting(fs, file_path,
                                   IF ~content.isNone THEN content.items ELSE <<>>)
            args == <<file_name, content, file_type>>
        IN  /\ previous' = NoResult
            /\ UNCHANGED <<listing_order, current_directory, process_cwd, structureVars>>
            /\ IF file_type \notin AllowedTypes
               THEN /\ fs' = fs
                    /\ result' = [op |-> "create_file_type", args |-> args,
                                  status |-> "returned", value |-> PyNone,
                                  printed |-> << Message("Error: Unsupported file type '{file_type}'.",
                                                         <<file_type>>) >>,
                                  exc |-> "none"]
               ELSE /\ Cardinality(DOMAIN call.fs) <= MaxEntries
                    /\ fs' = call.fs
                    /\ result' = Outcome("create_file_type", args, call.exc,
                           "File '{file_name}.{file_type}' created.",
                           << Clause("FileExistsError", "Error: File '{file_name}.{file_type}' already exists."),
                              Clause("PermissionError", "Error: Permission denied to create file '{file_name}.{file_type}'."),
                              Clause("Exception", "Error creating file: {str(e)}") >>,
                           <<file_name, file_type>>, TRUE)

\* the two calls that create a file, on the filesystems of SpecMutate
NextCreate ==
    \/ MutateEnv
    \/ Unchanged /\ ChangeDirectory
    \/ Unchanged /\ CreateNewFile
    \/ Unchanged /\ CreateFileType

SpecCreate == InitMutate /\ [][NextCreate]_vars

\* the name of the file a creating call is to make
ResultingName(call) ==
    IF call.op = "create_new_file" THEN call.args[1]
    ELSE TypedName(call.args[1], call.args[3])

\* the file of that name exists before the step
AlreadyExists(call) ==
    LET loc == Locate(fs, PathJoin(current_directory, ResultingName(call)))
    IN  /\ loc.exc = "none"
        /\ loc.real \in DOMAIN fs
        /\ fs[loc.real].kind = "file"

\* C27: create_new_file(name, content) and create_file_type(name, content,
\* type), called when a file of the resulting name already exists, return
\* the "already exists" error message and leave the file as it was.
C27_ExistingFileIsKept ==
    [][(/\ Unchanged
        /\ result'.op \in { "create_new_file", "create_file_type" }
        /\ result'.printed = <<>>
        /\ AlreadyExists(result')) =>
           /\ fs' = fs
           /\ result'.value.template \in
                  { "Error: File '{new_file_name}' already exists.",
                    "Error: File '{file_name}.{file_type}' already exists." }]_vars


-----------------------------------------------------------------------------
(* C29: change_directory that fails                                        *)

\* C29: when change_directory fails (the directory is missing, not
\* permitted or not a directory) self.current_directory keeps its value;
\* it changes only in a call of change_directory whose chdir succeeded.
C29_FailedChangeKeepsDirectory ==
    [][/\ (result'.op = "change_directory" /\ result'.exc # "none")
              => current_directory' = current_directory
       /\ current_directory' # current_directory
              => (result'.op = "change_directory" /\ result'.exc = "none")]_vars

\* C29 witness: a change of directory succeeded, and a later one failed and
\* left the directory of the first in place.
C29_Witness ==
    /\ result.op = "change_directory"
    /\ result.exc # "none"
    /\ current_directory # <<S_w>>
    /\ process_cwd = current_directory


-----------------------------------------------------------------------------
(* C24, C25: what draw_project_structure prints                            *)

\* the lines that announce a node, as indentation and name
Headings(lines) ==
    LET heads == SelectSeq(lines, LAMBDA l :
                     l.text.template \in { "- {name} (Folder)", "- {name} (File)" })
    IN  [i \in 1..Len(heads) |->
            [indent |-> heads[i].indent, name |-> heads[i].text.values[1]]]

\* the nodes of a tree in depth-first pre-order, each with its depth
RECURSIVE PreOrder(_, _)
PreOrder(node, depth) ==
    IF node = <<>> THEN <<>>
    ELSE << [indent |-> depth, name |-> Head(node).key] >>
         \o (IF Head(node).val.type = "folder"
             THEN PreOrder(Head(node).val.content, depth + 1) ELSE <<>>)
         \o PreOrder(Tail(node), depth)

\* the places of the total line in what was printed
TotalLines(lines) ==
    { i \in 1..Len(lines) :
          lines[i].text.template = "\nTotal Project Size: {size(total_size)}" }

\* C24: draw_project_structure prints the nodes in depth-first pre-order,
\* each indented by its depth, and prints the "Total Project Size" line
\* exactly once per top-level call, after every node line and never from a
\* recursive call, also when folders are empty.
C24_PreOrderThenOneTotal ==
    [][DrawProjectStructure =>
           /\ Headings(output') = PreOrder(structure, 0)
           /\ TotalLines(output') = { Len(output') }]_vars

\* C24 witness: a scanned tree with an empty folder and a nested node has
\* been drawn.
C24_Witness ==
    /\ pc = "done"
    /\ \E q \in FolderNodePaths : NodeAt(structure, q).content = <<>>
    /\ \E q \in NodePaths(structure) : Len(q) = 2
    /\ Headings(output) = PreOrder(structure, 0)
    /\ TotalLines(output) = { Len(output) }

\* what was printed as the content of the files: a text, or an error line
Contents(lines) ==
    LET shown == SelectSeq(lines, LAMBDA l :
                     l.text.template \in
                         { "{content}", "Error reading content of {file_name}: {str(e)}" })
    IN  [i \in 1..Len(shown) |->
            IF shown[i].text.template = "{content}"
            THEN [ok |-> TRUE, text |-> shown[i].text.values[1]]
            ELSE [ok |-> FALSE, text |-> <<>>]]

\* for the File nodes of a tree in the order they are drawn: the UTF-8 text
\* of the file at the node's own path below base_path, or that it cannot be
\* read
RECURSIVE OwnContents(_, _)
OwnContents(node, path) ==
    IF node = <<>> THEN <<>>
    ELSE LET own == Append(path, Head(node).key)
             opened == OpenForReading(fs, own)
             decoded == Decode(opened.bytes, "utf-8")
             ok == opened.exc = "none" /\ decoded.exc = "none"
         IN  (IF Head(node).val.type = "folder"
              THEN OwnContents(Head(node).val.content, own)
              ELSE << [ok |-> ok, text |-> IF ok THEN decoded.text ELSE <<>>] >>)
             \o OwnContents(Tail(node), path)

\* C25: with show_file_content on, for every File node at any depth the
\* drawing prints the UTF-8 content of the file at that node's own path under
\* base_path, or an error line when that file cannot be read or decoded;
\* never the content of another file.
C25_OwnContentIsDrawn ==
    [][(DrawProjectStructure /\ show_file_content) =>
           Contents(output') = OwnContents(structure, <<>>)]_vars


-----------------------------------------------------------------------------
(* SpecRace: a scan while another process removes entries                  *)
(*                                                                         *)
(* The steps of _build_structure are its system calls: os.listdir,         *)
(* os.path.isdir, os.path.isfile, os.path.getsize and os.path.getmtime.    *)
(* Between any two of them the other process may remove a file or a        *)
(* folder with all it holds. pc names the call the scan makes next for     *)
(* the entry at the head of the top frame; "raised" is a scan that an      *)
(* exception of a system call ended (there is no try in the method).       *)

\* os.path.isdir(entry_path); a directory gets its folder node at once
ScanIsDir ==
    /\ pc = "building" /\ Top.todo # <<>>
    /\ IF IsFolderEntry(EntryPath, Head(Top.todo))
       THEN /\ structure' = SetAt(structure, Top.current_path, Head(Top.todo), FolderNode)
            /\ pc' = "listdir"
       ELSE /\ structure' = structure
            /\ pc' = "isfile"
    /\ UNCHANGED <<fs, listing_order, include_file_types, exclude_file_types,
                   stack, total_size, valid_call, explorerVars, drawVars>>

\* the recursive call _build_structure(entry_path, ...): os.listdir(entry_path)
ScanListdir ==
    /\ pc = "listdir"
    /\ IF IsDir(fs, EntryPath)
       THEN /\ stack' = Append(Advance(stack), Frame(EntryPath))
            /\ pc' = "building"
       ELSE /\ stack' = stack
            /\ pc' = "raised"
    /\ UNCHANGED <<fs, listing_order, include_file_types, exclude_file_types,
                   structure, total_size, valid_call, explorerVars, drawVars>>

\* os.path.isfile(entry_path) and self._is_valid_file(entry)
ScanIsFile ==
    /\ pc = "isfile"
    /\ IF IsFileEntry(EntryPath, Head(Top.todo))
       THEN /\ stack' = stack
            /\ pc' = "getsize"
       ELSE /\ stack' = Advance(stack)
            /\ pc' = "building"
    /\ UNCHANGED <<fs, listing_order, include_file_types, exclude_file_types,
                   structure, total_size, valid_call, explorerVars, drawVars>>

\* file_size = os.path.getsize(entry_path), kept in the frame
ScanGetSize ==
    /\ pc = "getsize"
    /\ IF PathExists(fs, EntryPath)
       THEN /\ stack' = [stack EXCEPT ![Len(stack)] =
                            [current_path |-> Top.current_path, todo |-> Top.todo,
                             file_size |-> GetSize(fs, EntryPath)]]
            /\ pc' = "getmtime"
       ELSE /\ stack' = stack
            /\ pc' = "raised"
    /\ UNCHANGED <<fs, listing_order, include_file_types, exclude_file_types,
                   structure, total_size, valid_call, explorerVars, drawVars>>

\* modified_time = os.path.getmtime(entry_path), and the file node
ScanGetMTime ==
    /\ pc = "getmtime"
    /\ IF PathExists(fs, EntryPath)
       THEN /\ structure' = SetAt(structure, Top.current_path, Head(Top.todo),
                                  FileNode(Top.file_size, GetMTime(fs, EntryPath)))
            /\ stack' = [stack EXCEPT ![Len(stack)] =
                            [current_path |-> Top.current_path, todo |-> Tail(Top.todo)]]
            /\ pc' = "building"
       ELSE /\ structure' = structure
            /\ stack' = stack
            /\ pc' = "raised"
    /\ UNCHANGED <<fs, listing_order, include_file_types, exclude_file_types,
                   total_size, valid_call, explorerVars, drawVars>>

\* another process removes a folder and all it holds
EnvRemoveFolder ==
    \E q \in DOMAIN fs :
        /\ fs[q].kind = "dir"
        /\ fs' = Without(fs, Subtree(fs, q))

\* the scan is under way
Scanning == pc \in { "building", "listdir", "isfile", "getsize", "getmtime" }

\* the other process, during the scan
RaceEnv ==
    /\ Scanning
    /\ \/ EnvRemoveFile
       \/ EnvRemoveFolder
    /\ UNCHANGED <<listing_order, include_file_types, exclude_file_types,
                   structure, pc, stack, total_size, valid_call, explorerVars, drawVars>>

NextRace ==
    \/ TreeEnv
    \/ ReadProjectStructure
    \/ ScanIsDir
    \/ ScanListdir
    \/ ScanIsFile
    \/ ScanGetSize
    \/ ScanGetMTime
    \/ BuildReturn
    \/ RaceEnv

SpecRace == InitDraw /\ [][NextRace]_vars

\* C21: when another process deletes a file or folder under base_path while
\* _build_structure runs (between the listing and the isdir/isfile test,
\* the size and mtime reads or the recursive listing), the scan skips the
\* entry and goes on to the end: no exception ends it.
C21_RemovalNeverEndsTheScan == pc # "raised"


-----------------------------------------------------------------------------
(* SpecRescan: scans of one object, the tree changing between them         *)

\* read_project_structure called again on the same object: the scan starts
\* over on self.structure as the scan before left it
ReadProjectStructureAgain ==
    /\ pc = "done"
    /\ pc' = "building"
    /\ stack' = << Frame(<<>>) >>
    /\ UNCHANGED <<fs, listing_order, include_file_types, exclude_file_types,
                   structure, total_size, valid_call, explorerVars, drawVars>>

\* the tree changes between two scans: files and folders are removed
RescanEnv ==
    /\ pc = "done"
    /\ \/ EnvRemoveFile
       \/ EnvRemoveFolder
    /\ UNCHANGED <<listing_order, include_file_types, exclude_file_types,
                   structure, pc, stack, total_size, valid_call, explorerVars, drawVars>>

NextRescan ==
    \/ TreeEnv
    \/ ReadProjectStructure
    \/ BuildFolder
    \/ BuildFile
    \/ BuildSkip
    \/ BuildReturn
    \/ RescanEnv
    \/ ReadProjectStructureAgain

SpecRescan == InitDraw /\ [][NextRescan]_vars

\* the folders and the accepted files below base_path
FoldersAndAcceptedFiles ==
    { q \in DOMAIN fs : fs[q].kind = "dir" \/ Accepted(Last(q)) }

\* C22: whatever changed on disk between the calls, the tree a call of
\* read_project_structure leaves holds exactly the folders and accepted
\* files that exist at that scan: no node of an entry deleted before the
\* scan survives in it.
C22_TreeIsOfTheLastScan ==
    [][(pc = "building" /\ pc' = "done") =>
           /\ NodePaths(structure') = FoldersAndAcceptedFiles
           /\ \A q \in FoldersAndAcceptedFiles :
                  NodeAt(structure', q).type =
                      (IF fs[q].kind = "dir" THEN "folder" ELSE "file")]_vars


-----------------------------------------------------------------------------
(* Explorer.filter_files_by_type                                           *)

\* file_info['type'].startswith(file_type) raises TypeError when file_type
\* is None
StartsWithRaises(file_type) == file_type.isNone

\* the list comprehension of filter_files_by_type
FilteredFiles_all(file_list, file_type) == file_list
FilteredFiles(file_list, file_type) ==
    SelectSeq(file_list, LAMBDA file_info : StartsWith(file_info.type, file_type.items))

\* Explorer.filter_files_by_type: get_all_files() with its default
\* arguments, then the comprehension; nothing is caught
FilterFilesByType ==
    \E file_type \in TypeFilters :
        LET args == [file_type |-> file_type]
            all_files == FileList("name", None)
        IN  /\ result' =
                 IF TypeSniffingRaises
                     THEN Raised("filter_files_by_type", args)
                 ELSE IF all_files # <<>> /\ StartsWithRaises(file_type)
                     THEN Raised("filter_files_by_type", args)
                 ELSE Returned("filter_files_by_type", args,
                               FilteredFiles(all_files, file_type))
            /\ previous' = NoResult
            /\ UNCHANGED <<fs, listing_order, current_directory, process_cwd, structureVars>>

NextFilter ==
    \/ ExplorerEnv
    \/ GetAllFiles
    \/ FilterFilesByType

SpecFilter == InitExplorer /\ [][NextFilter]_vars

\* C26: get_all_files(file_type = t) returns exactly the direct regular
\* files of current_directory whose type label starts with t (all of them
\* when t is None), never a directory or an entry of a sub-directory; and
\* filter_files_by_type(t) returns the same records in the same order as
\* get_all_files(file_type = t).
C26_FilterIsGetAllFiles ==
    /\ (result.op = "get_all_files" /\ result.status = "returned") =>
           /\ ExactlyOnce(result.value, Qualifying(result.args.file_type))
           /\ \A i \in 1..Len(result.value) :
                  /\ Front(result.value[i].path) = current_directory
                  /\ fs[result.value[i].path].kind = "file"
    /\ (result.op = "filter_files_by_type" /\ ~TypeSniffingRaises) =>
           /\ result.status = "returned"
           /\ result.value = FileList("name", result.args.file_type)

\* C26, for a string t: get_all_files(file_type = t) returns exactly the
\* direct regular files of current_directory whose type label starts with t
\* (all of them when t is None), never a directory or an entry of a
\* sub-directory; and for every string t filter_files_by_type(t) has the
\* outcome of get_all_files(file_type = t): the same records in the same
\* order, or the exception of the type sniffing.
C26_FilterIsGetAllFilesForStr ==
    /\ (result.op = "get_all_files" /\ result.status = "returned") =>
           /\ ExactlyOnce(result.value, Qualifying(result.args.file_type))
           /\ \A i \in 1..Len(result.value) :
                  /\ Front(result.value[i].path) = current_directory
                  /\ fs[result.value[i].path].kind = "file"
    /\ (result.op = "filter_files_by_type" /\ ~result.args.file_type.isNone) =>
           IF TypeSniffingRaises THEN result.status = "raised"
           ELSE /\ result.status = "returned"
                /\ result.value = FileList("name", result.args.file_type)

\* C26 witness: filter_files_by_type("ASCII") returned two of the three
\* files of the directory, the third being no text.
C26_Witness ==
    /\ result.op = "filter_files_by_type"
    /\ result.status = "returned"
    /\ result.args.file_type = List(S_ASCII)
    /\ Len(result.value) = 2
    /\ Len(FileList("name", None)) = 3


-----------------------------------------------------------------------------
(* SpecLive: get_all_files after a call that changes the directory         *)

\* other processes fill the directories before the first call, with files
\* this process can read
LiveEnv ==
    /\ result = NoResult
    /\ \/ EnvCreateFile(RealDirs(fs), MutateNames, MutateFiles)
       \/ EnvMakeDir(RealDirs(fs), MutateNames)
    /\ UNCHANGED <<listing_order, explorerVars, structureVars>>

\* a changing call on any such filesystem, then get_all_files
NextLive ==
    \/ LiveEnv
    \/ result = NoResult /\ RenameFile
    \/ result = NoResult /\ CreateNewFile
    \/ result = NoResult /\ DeleteFile
    \/ result = NoResult /\ CreateFolder
    \/ result = NoResult /\ DeleteDirectory
    \/ GetAllFiles

SpecLive == InitMutate /\ [][NextLive]_vars

\* the regular files that are direct children of current_directory now
LiveFiles ==
    { q \in DOMAIN fs : Front(q) = current_directory /\ fs[q].kind = "file" }

\* C23: after any sequence of successful or failed create_new_file,
\* rename_file, delete_file, create_folder and delete_directory calls,
\* get_all_files() (no type filter) returns exactly one record for each
\* regular file that is a direct child of current_directory at that moment: none for a deleted
\* or renamed-away name, one for each created or renamed-to name, none for
\* folders.
C23_ListingIsLive ==
    (result.op = "get_all_files" /\ result.args.file_type = None) =>
        /\ result.status = "returned"
        /\ Len(result.value) = Cardinality(LiveFiles)
        /\ { result.value[i].path : i \in 1..Len(result.value) } = LiveFiles

\* C23 witness: create_new_file wrote "hello" into a directory that also
\* holds a folder; get_all_files returned the one record of that file.
C23_Witness ==
    /\ result.op = "get_all_files"
    /\ result.args.file_type = None
    /\ Len(result.value) = 1
    /\ result.value[1].size = Len(S_hello)
    /\ \E q \in DOMAIN fs : Front(q) = current_directory /\ fs[q].kind = "dir"

====
